---------------------------- MODULE Spec2Model ----------------------------
(*************************************************************************)
(* SarthiAI backend: the plan generation pipeline                        *)
(* (backend/app/services/resolution_decomposer.py).                      *)
(*                                                                       *)
(* One request to decompose_resolution_with_llm is modelled as a state   *)
(* machine whose steps are the stages of the ladder                      *)
(*     GENERATE -> EVALUATE -> REPAIR -> REGENERATE -> FALLBACK -> DONE. *)
(* The language model is the environment: at each call it raises,        *)
(* answers with JSON that fails schema validation, or answers with a     *)
(* schema-valid plan.  Post-processing, scheduling, the fallback plan    *)
(* and finalization are operators computed as the Python computes them.  *)
(*                                                                       *)
(* Python values are represented as follows.                             *)
(*   str            a TLA+ string (TLC evaluates Len, SubSeq, Head, Tail *)
(*                  and \o on strings)                                   *)
(*   date           an integer: the number of days after date.today()    *)
(*   Optional[int], a record [t |-> "none"], [t |-> "int", int |-> n],   *)
(*   Any            [t |-> "str", str |-> s], [t |-> "bool", bool |-> b] *)
(*   list           a sequence                                           *)
(*   exception      a record [err |-> TRUE, exc |-> <name>] returned in  *)
(*                  place of the value                                   *)
(*************************************************************************)
EXTENDS Integers, Sequences, FiniteSets, TLC

\* Body at the value of v: v is evaluated once, before Body
Bind(v, Body(_)) == CHOOSE r \in {Body(x) : x \in {v}} : TRUE

-----------------------------------------------------------------------------
(* Python built-ins on str                                               *)

Whitespace == {" ", "\t", "\n"}

Digits == <<"0", "1", "2", "3", "4", "5", "6", "7", "8", "9">>

UpperLetters == "ABCDEFGHIJKLMNOPQRSTUVWXYZ"

LowerLetters == "abcdefghijklmnopqrstuvwxyz"

CharAt(s, i) == SubSeq(s, i, i)

\* index of the one-character string c in alphabet, 0 when absent
IndexIn(c, alphabet) ==
    IF \E i \in 1..Len(alphabet) : CharAt(alphabet, i) = c
    THEN CHOOSE i \in 1..Len(alphabet) : CharAt(alphabet, i) = c
    ELSE 0

LowerChar(c) ==
    LET i == IndexIn(c, UpperLetters)
    IN  IF i = 0 THEN c ELSE CharAt(LowerLetters, i)

UpperChar(c) ==
    LET i == IndexIn(c, LowerLetters)
    IN  IF i = 0 THEN c ELSE CharAt(UpperLetters, i)

RECURSIVE StrLower(_)
\* str.lower(), computed on the two halves of s
StrLower(s) ==
    IF s = "" THEN ""
    ELSE IF Len(s) = 1 THEN LowerChar(s)
    ELSE StrLower(SubSeq(s, 1, Len(s) \div 2))
         \o StrLower(SubSeq(s, (Len(s) \div 2) + 1, Len(s)))

\* str.capitalize()
StrCapitalize(s) == IF s = "" THEN "" ELSE UpperChar(Head(s)) \o StrLower(Tail(s))

\* s.lstrip()
LStrip(s) ==
    LET kept == {i \in 1..Len(s) : CharAt(s, i) \notin Whitespace}
    IN  IF kept = {} THEN ""
        ELSE SubSeq(s, CHOOSE i \in kept : \A j \in kept : i <= j, Len(s))

\* s.rstrip()
RStrip(s) ==
    LET kept == {i \in 1..Len(s) : CharAt(s, i) \notin Whitespace}
    IN  IF kept = {} THEN ""
        ELSE SubSeq(s, 1, CHOOSE i \in kept : \A j \in kept : i >= j)

\* str.strip()
StrStrip(s) == RStrip(LStrip(s))

\* sub in s
StrContains(s, sub) ==
    \E i \in 1..(Len(s) - Len(sub) + 1) : SubSeq(s, i, i + Len(sub) - 1) = sub

\* s.endswith(suffix)
StrEndsWith(s, suffix) ==
    /\ Len(suffix) <= Len(s)
    /\ SubSeq(s, Len(s) - Len(suffix) + 1, Len(s)) = suffix

\* s.isdigit()
StrIsDigit(s) ==
    /\ s # ""
    /\ \A i \in 1..Len(s) : IndexIn(CharAt(s, i), "0123456789") # 0

RECURSIVE StrSplitOn(_, _)
\* s.split(sep) for a one-character separator
StrSplitOn(s, sep) ==
    IF \E i \in 1..Len(s) : CharAt(s, i) = sep
    THEN LET i == CHOOSE k \in 1..Len(s) :
                    /\ CharAt(s, k) = sep
                    /\ \A j \in 1..(k - 1) : CharAt(s, j) # sep
         IN  <<SubSeq(s, 1, i - 1)>> \o StrSplitOn(SubSeq(s, i + 1, Len(s)), sep)
    ELSE <<s>>

RECURSIVE StrSplitWs(_)
\* s.split(): the maximal runs of non-whitespace characters
StrSplitWs(s) ==
    LET t == LStrip(s)
    IN  IF t = "" THEN <<>>
        ELSE LET n == IF \E i \in 1..Len(t) : CharAt(t, i) \in Whitespace
                      THEN (CHOOSE k \in 1..Len(t) :
                              /\ CharAt(t, k) \in Whitespace
                              /\ \A j \in 1..(k - 1) : CharAt(t, j) \notin Whitespace) - 1
                      ELSE Len(t)
             IN  <<SubSeq(t, 1, n)>> \o StrSplitWs(SubSeq(t, n + 1, Len(t)))

RECURSIVE StrJoin(_, _)
\* sep.join(parts)
StrJoin(sep, parts) ==
    IF parts = <<>> THEN ""
    ELSE IF Len(parts) = 1 THEN parts[1]
    ELSE parts[1] \o sep \o StrJoin(sep, Tail(parts))

RECURSIVE DigitsValue(_)
DigitsValue(s) ==
    IF s = "" THEN 0
    ELSE 10 * DigitsValue(SubSeq(s, 1, Len(s) - 1))
         + (IndexIn(CharAt(s, Len(s)), "0123456789") - 1)

\* int(s) for a str: surrounding whitespace and one sign are accepted,
\* anything else raises ValueError
ParseInt(s) ==
    Bind(StrStrip(s), LAMBDA t :
    Bind(IF t # "" /\ Head(t) \in {"-", "+"} THEN Tail(t) ELSE t, LAMBDA body :
        IF ~StrIsDigit(body) THEN [err |-> TRUE, exc |-> "ValueError"]
        ELSE [err |-> FALSE,
              v |-> (IF Head(t) = "-" THEN 0 - 1 ELSE 1) * DigitsValue(body)]))

RECURSIVE IntToStr(_)
\* str(n) for an int
IntToStr(n) ==
    IF n < 0 THEN "-" \o IntToStr(0 - n)
    ELSE IF n < 10 THEN Digits[n + 1]
    ELSE IntToStr(n \div 10) \o Digits[(n % 10) + 1]

\* f"{n:02d}" for 0 <= n
Pad2(n) == IF n < 10 THEN "0" \o IntToStr(n) ELSE IntToStr(n)

-----------------------------------------------------------------------------
(* Python values of unknown type (Any, Optional[...])                    *)

PyNone == [t |-> "none"]

PyInt(n) == [t |-> "int", int |-> n]

PyStr(s) == [t |-> "str", str |-> s]

PyBool(b) == [t |-> "bool", bool |-> b]

PyList(q) == [t |-> "list", list |-> q]

PyDict(d) == [t |-> "dict", dict |-> d]

\* bool(x)
Truthy(x) ==
    CASE x.t = "none" -> FALSE
      [] x.t = "int"  -> x.int # 0
      [] x.t = "str"  -> x.str # ""
      [] x.t = "bool" -> x.bool
      [] x.t = "list" -> x.list # <<>>
      [] OTHER        -> TRUE

\* a or b
PyOr(a, b) == IF Truthy(a) THEN a ELSE b

\* str(x)
PyToStr(x) ==
    CASE x.t = "none" -> "None"
      [] x.t = "int"  -> IntToStr(x.int)
      [] x.t = "str"  -> x.str
      [] x.t = "bool" -> (IF x.bool THEN "True" ELSE "False")
      [] OTHER        -> "<object>"

\* int(x): ValueError for a str that is no number, TypeError for None, a
\* list or a dict
PyToInt(x) ==
    CASE x.t = "int"  -> [err |-> FALSE, v |-> x.int]
      [] x.t = "bool" -> [err |-> FALSE, v |-> IF x.bool THEN 1 ELSE 0]
      [] x.t = "str"  -> ParseInt(x.str)
      [] OTHER        -> [err |-> TRUE, exc |-> "TypeError"]

Raise(name) == [err |-> TRUE, exc |-> name]

Return(value) == [err |-> FALSE, v |-> value]

-----------------------------------------------------------------------------
(* Cadence descriptors                                                   *)

\* A cadence dict as an LLM plan or a specialty template carries it: the
\* keys the code reads.  A key that is absent reads as None (dict.get).
CadenceDict(type, count, days, times) ==
    PyDict([type |-> type, cadence |-> PyNone, count |-> count,
            times_per_week |-> PyNone, days |-> days, times |-> times])

_coerce_positive_int(value) ==
    IF value.t = "none" THEN PyNone
    ELSE IF value.t = "bool" THEN (IF value.bool THEN PyInt(1) ELSE PyNone)
    ELSE Bind(PyToInt(value), LAMBDA num :
             IF num.err THEN PyNone
             ELSE IF num.v > 0 THEN PyInt(num.v) ELSE PyNone)

OncePerWeekAliases == {"once_per_week"}

TwicePerWeekAliases == {"twice_per_week", "two_per_week", "2x_per_week", "2x_in_week"}

ThricePerWeekAliases == {"thrice_per_week", "three_per_week", "3x_per_week", "3x_in_week"}

\* [str(day).strip().lower() for day in days if isinstance(day, str)];
\* iterating a str yields its characters
NormalizedDayNames(days) ==
    LET items == IF days.t = "str"
                 THEN [i \in 1..Len(days.str) |-> PyStr(CharAt(days.str, i))]
                 ELSE days.list
        strs == SelectSeq(items, LAMBDA d : d.t = "str")
    IN  PyList([i \in 1..Len(strs) |-> PyStr(StrLower(StrStrip(strs[i].str)))])

\* struct is the record of a cadence dict; the result is one too, or an
\* exception (a truthy days value that cannot be iterated)
_normalize_cadence_struct(struct) ==
    Bind(StrLower(PyToStr(PyOr(PyOr(struct.type, struct.cadence), PyStr("")))),
         LAMBDA type0 :
    Bind(_coerce_positive_int(PyOr(struct.count, struct.times_per_week)),
         LAMBDA count0 :
        LET days == struct.days
            alias == type0 \in OncePerWeekAliases \cup TwicePerWeekAliases
                           \cup ThricePerWeekAliases \cup {"weekly"}
            count1 == IF type0 \in OncePerWeekAliases \cup {"weekly"}
                      THEN PyOr(count0, PyInt(1))
                      ELSE IF type0 \in TwicePerWeekAliases THEN PyOr(count0, PyInt(2))
                      ELSE IF type0 \in ThricePerWeekAliases THEN PyOr(count0, PyInt(3))
                      ELSE count0
            type1 == IF alias THEN "x_per_week" ELSE type0
            type2 == IF type1 # "" THEN type1
                     ELSE IF Truthy(count1) THEN "x_per_week"
                     ELSE IF Truthy(days) THEN "specific_days"
                     ELSE "flex"
        IN  IF Truthy(days) /\ days.t \notin {"list", "str"}
            THEN Raise("TypeError")
            ELSE Return([struct EXCEPT
                     !.type = PyStr(type2),
                     !.count = IF Truthy(count1) THEN count1 ELSE struct.count,
                     !.days = IF Truthy(days) THEN NormalizedDayNames(days)
                              ELSE struct.days])))

\* raw is the cadence value of a task: a str, a dict or anything else
_build_cadence_struct(raw) ==
    IF raw.t = "dict"
    THEN LET struct == raw.dict
             times == IF struct.times.t = "none" THEN PyList(<<PyStr("morning")>>)
                      ELSE struct.times
             type == IF Truthy(struct.type) THEN PyStr(StrLower(PyToStr(struct.type)))
                     ELSE struct.type
         IN  _normalize_cadence_struct([struct EXCEPT !.times = times, !.type = type])
    ELSE IF raw.t = "str"
    THEN _normalize_cadence_struct(
             CadenceDict(PyStr(StrLower(raw.str)), PyNone, PyNone,
                         PyList(<<PyStr("morning")>>)).dict)
    ELSE _normalize_cadence_struct(
             CadenceDict(PyStr("flex"), PyNone, PyNone, PyList(<<PyStr("morning")>>)).dict)

DayNames == <<"monday", "tuesday", "wednesday", "thursday", "friday", "saturday", "sunday">>

\* variant: weekday numbers that start the week on Sunday (Sunday 0)
SundayFirstDays(raw_days) ==
    IF ~Truthy(raw_days) THEN <<>>
    ELSE LET items == IF raw_days.t = "str"
                      THEN [i \in 1..Len(raw_days.str) |-> PyStr(CharAt(raw_days.str, i))]
                      ELSE raw_days.list
             keys == [i \in 1..Len(items) |->
                         IF items[i].t = "str" THEN StrLower(StrStrip(items[i].str)) ELSE ""]
             known == SelectSeq(keys, LAMBDA k : \E n \in 1..7 : DayNames[n] = k)
         IN  [i \in 1..Len(known) |-> (CHOOSE n \in 1..7 : DayNames[n] = known[i]) % 7]

\* raw_days is None, a list or a str; the result is a list of weekday
\* numbers 0..6 (Monday 0)
_normalize_days(raw_days) ==
    IF ~Truthy(raw_days) THEN <<>>
    ELSE LET items == IF raw_days.t = "str"
                      THEN [i \in 1..Len(raw_days.str) |-> PyStr(CharAt(raw_days.str, i))]
                      ELSE raw_days.list
             keys == [i \in 1..Len(items) |->
                         IF items[i].t = "str" THEN StrLower(StrStrip(items[i].str)) ELSE ""]
             known == SelectSeq(keys, LAMBDA k : \E n \in 1..7 : DayNames[n] = k)
         IN  [i \in 1..Len(known) |-> (CHOOSE n \in 1..7 : DayNames[n] = known[i]) - 1]

\* round(i * 7 / count): Python rounds a half to the even neighbour
RoundedOffset(i, count) ==
    LET q == (7 * i) \div count
        r == (7 * i) % count
    IN  IF 2 * r < count THEN q
        ELSE IF 2 * r > count THEN q + 1
        ELSE IF q % 2 = 0 THEN q ELSE q + 1

Min(a, b) == IF a <= b THEN a ELSE b

Max(a, b) == IF a >= b THEN a ELSE b

\* variant: int(i * spacing) in place of int(round(i * spacing))
TruncatedSpacedDays(count, week_start) ==
    IF count <= 1 THEN <<week_start>>
    ELSE LET c == Max(1, Min(count, 7))
         IN  [k \in 1..c |-> week_start + Min(6, (7 * (k - 1)) \div c)]

_evenly_spaced_days(count, week_start) ==
    IF count <= 1 THEN <<week_start>>
    ELSE LET c == Max(1, Min(count, 7))
         IN  [k \in 1..c |-> week_start + Min(6, RoundedOffset(k - 1, c))]

RECURSIVE SortedSeq(_)
\* sorted(S) for a finite set of integers
SortedSeq(S) ==
    IF S = {} THEN <<>>
    ELSE LET m == CHOOSE x \in S : \A y \in S : x <= y
         IN  <<m>> \o SortedSeq(S \ {m})

SeqRange(q) == {q[i] : i \in 1..Len(q)}

\* weekday of the date week_start + d, given date.today().weekday()
Weekday(day, today_weekday) == (today_weekday + day) % 7

-----------------------------------------------------------------------------
(* Cadence engine: target days, day selection, time slots                *)

\* int(cadence_type.split("x")[0]) inside try/except: 1 on any exception
CountFromTypePrefix(cadence_type) ==
    Bind(ParseInt(StrSplitOn(cadence_type, "x")[1]), LAMBDA parsed :
        IF parsed.err THEN 1 ELSE parsed.v)

\* cadence_struct is the record of a normalized cadence dict; first_day_hint
\* is parsed by the code and then never read.  The result is the sorted list
\* of distinct target days, or the exception int() raises on the count.
_expand_target_days(cadence_struct, week_start, repeat_daily, today_weekday) ==
    Bind(StrLower(PyToStr(PyOr(PyOr(cadence_struct.type, cadence_struct.cadence),
                               PyStr("")))),
         LAMBDA cadence_type :
        LET sorted(days) == Return(SortedSeq(SeqRange(days)))
        IN  IF cadence_type = "daily" \/ (repeat_daily /\ StrContains(cadence_type, "daily"))
            THEN sorted([i \in 1..7 |-> week_start + (i - 1)])
            ELSE IF cadence_type = "specific_days"
            THEN Bind(_normalize_days(PyOr(cadence_struct.days, PyList(<<>>))),
                      LAMBDA normalized :
                     sorted([i \in 1..Len(normalized) |->
                         week_start
                         + ((normalized[i] - Weekday(week_start, today_weekday)) % 7)]))
            ELSE IF cadence_type \in {"x_per_week", "times_per_week"}
            THEN Bind(PyToInt(PyOr(PyOr(cadence_struct.count, cadence_struct.times_per_week),
                                   PyInt(1))),
                      LAMBDA count :
                     IF count.err THEN count
                     ELSE sorted(_evenly_spaced_days(count.v, week_start)))
            ELSE IF StrEndsWith(cadence_type, "x_per_week")
                    \/ cadence_type \in {"2x_in_week", "3x_in_week"}
            THEN sorted(_evenly_spaced_days(CountFromTypePrefix(cadence_type), week_start))
            ELSE IF cadence_type \in {"once", "one_time"}
            THEN sorted(<<week_start>>)
            ELSE IF cadence_type \in {"twice", "twice_per_week", "two_per_week"}
            THEN sorted(_evenly_spaced_days(2, week_start))
            ELSE IF cadence_type \in {"thrice", "thrice_per_week", "three_per_week"}
            THEN sorted(_evenly_spaced_days(3, week_start))
            ELSE sorted(<<week_start>>))

max_checks == 21

HeavyTaskMinutes == 15

HeavyTasksPerDay == 2

LongSessionMinutes == 60

\* daily_load[day], [] when the day has no entry
LoadOn(daily_load, day) == IF day \in DOMAIN daily_load THEN daily_load[day] ELSE <<>>

\* the ledger that would keep only the latest duration of a day
LoadReplaced(daily_load, day, duration) ==
    [d \in DOMAIN daily_load \cup {day} |->
        IF d = day THEN <<duration>> ELSE daily_load[d]]

\* daily_load.setdefault(day, []).append(duration)
AppendLoad(daily_load, day, duration) ==
    [d \in DOMAIN daily_load \cup {day} |->
        IF d = day THEN Append(LoadOn(daily_load, day), duration) ELSE daily_load[d]]

\* the condition that would refuse a long session only on the day of the
\* last one
AcceptsDayAfterLong(day, preferred_days, duration, daily_load, last_long_day, today_weekday) ==
    LET matches_preference ==
            preferred_days = <<>> \/ Weekday(day, today_weekday) \in SeqRange(preferred_days)
        load == LoadOn(daily_load, day)
        effective_load == Len(SelectSeq(load, LAMBDA d : d >= HeavyTaskMinutes))
        long_conflict == /\ duration > LongSessionMinutes
                         /\ last_long_day.t # "none"
                         /\ day - last_long_day.int <= 0
    IN  matches_preference /\ effective_load < HeavyTasksPerDay /\ ~long_conflict

\* the condition of the return inside the scan loop
DayAccepts(day, preferred_days, duration, daily_load, last_long_day, today_weekday) ==
    LET matches_preference ==
            preferred_days = <<>> \/ Weekday(day, today_weekday) \in SeqRange(preferred_days)
        load == LoadOn(daily_load, day)
        effective_load == Len(SelectSeq(load, LAMBDA d : d >= HeavyTaskMinutes))
        long_conflict == /\ duration > LongSessionMinutes
                         /\ last_long_day.t # "none"
                         /\ day - last_long_day.int <= 1
    IN  matches_preference /\ effective_load < HeavyTasksPerDay /\ ~long_conflict

\* daily_load.setdefault(day, []): the ledger with an entry for the day
SetDefault(daily_load, day) ==
    [d \in DOMAIN daily_load \cup {day} |-> LoadOn(daily_load, d)]

RECURSIVE ScanDays(_, _, _, _, _, _, _)
\* the for loop from `day` with `checks` passes left: the day accepted and
\* the ledger after the append, or found = FALSE and the ledger with the
\* entries setdefault has left on the days scanned
ScanDays(day, checks, preferred_days, duration, daily_load, last_long_day, today_weekday) ==
    IF checks = 0 THEN [found |-> FALSE, day |-> day, daily_load |-> daily_load]
    ELSE Bind(SetDefault(daily_load, day), LAMBDA ledger :
            IF DayAccepts(day, preferred_days, duration, ledger, last_long_day, today_weekday)
            THEN [found |-> TRUE, day |-> day, daily_load |-> AppendLoad(ledger, day, duration)]
            ELSE ScanDays(day + 1, checks - 1, preferred_days, duration, ledger,
                          last_long_day, today_weekday))

\* the placement is never refused: without an accepted day the scan ends
\* on the day after the last one it checked
PlacedAfterScan(target_day, preferred_days, duration, daily_load, last_long_day, today_weekday) ==
    Bind(ScanDays(target_day, max_checks, preferred_days, duration, daily_load, last_long_day,
                  today_weekday),
         LAMBDA scan :
            IF scan.found THEN [day |-> scan.day, daily_load |-> scan.daily_load]
            ELSE [day |-> scan.day,
                  daily_load |-> AppendLoad(scan.daily_load, scan.day, duration)])

\* the result is [day, daily_load]: the day returned and the ledger after
\* the call (the empty entries setdefault leaves on scanned days included)
_schedule_on_or_after(target_day, preferred_days, duration, daily_load, last_long_day, today_weekday) ==
    Bind(ScanDays(target_day, max_checks, preferred_days, duration, daily_load, last_long_day,
                  today_weekday),
         LAMBDA scan :
            IF scan.found THEN [day |-> scan.day, daily_load |-> scan.daily_load]
            ELSE [day |-> target_day,
                  daily_load |-> AppendLoad(scan.daily_load, target_day, duration)])

\* an exception while parsing gives 8 * 60
_time_str_to_minutes(value) ==
    Bind(StrSplitOn(value, ":"), LAMBDA parts :
        IF Len(parts) # 2 THEN 8 * 60
        ELSE Bind(<<ParseInt(parts[1]), ParseInt(parts[2])>>, LAMBDA parsed :
                 IF parsed[1].err \/ parsed[2].err THEN 8 * 60
                 ELSE (parsed[1].v * 60) + parsed[2].v))

_minutes_to_time(total_minutes) ==
    LET m == total_minutes % (24 * 60)
    IN  Pad2(m \div 60) \o ":" \o Pad2(m % 60)

SlotProbes == 5

SlotStepMinutes == 30

\* the result is [time, used_times]
_find_free_time_slot(base_time, used_times) ==
    Bind(_time_str_to_minutes(base_time), LAMBDA base_minutes :
    Bind([offset \in 0..(SlotProbes - 1) |->
             _minutes_to_time(base_minutes + offset * SlotStepMinutes)],
         LAMBDA candidate :
        LET free == {offset \in DOMAIN candidate : candidate[offset] \notin used_times}
            first == CHOOSE x \in free : \A y \in free : x <= y
        IN  IF free # {}
            THEN [time |-> candidate[first],
                  used_times |-> used_times \cup {candidate[first]}]
            ELSE [time |-> base_time, used_times |-> used_times \cup {base_time}]))

\* user_blocks is a list of str
_preferred_time_for_resolution(resolution_type, user_blocks) ==
    IF user_blocks # <<>>
    THEN Bind(StrLower(StrStrip(user_blocks[1])), LAMBDA first :
             CASE first = "morning"   -> "07:30"
               [] first = "afternoon" -> "13:00"
               [] first = "evening"   -> "19:00"
               [] first = "night"     -> "21:00"
               [] OTHER               -> "09:00")
    ELSE Bind(StrLower(PyToStr(PyOr(resolution_type, PyStr("")))), LAMBDA normalized :
             IF normalized \in {"habit", "health", "fitness"} THEN "07:30"
             ELSE IF normalized \in {"skill", "learning", "project", "hobby"} THEN "19:00"
             ELSE "10:00")

\* work_hours is None or a str such as "09:00-17:00"; any exception while
\* parsing keeps the preferred time
_pick_time(preferred_time, work_hours) ==
    IF ~Truthy(work_hours) THEN preferred_time
    ELSE Bind(StrSplitOn(work_hours.str, "-"), LAMBDA segments :
        IF Len(segments) # 2 THEN preferred_time
        ELSE Bind(<<ParseInt(StrSplitOn(preferred_time, ":")[1]),
                    ParseInt(StrSplitOn(StrStrip(segments[1]), ":")[1]),
                    ParseInt(StrSplitOn(StrStrip(segments[2]), ":")[1])>>,
                  LAMBDA hour :
                 IF hour[1].err \/ hour[2].err \/ hour[3].err THEN preferred_time
                 ELSE IF hour[2].v <= hour[1].v /\ hour[1].v < hour[3].v THEN "18:30"
                 ELSE preferred_time))

_confidence_level(preferred_days, preferred_blocks) ==
    IF preferred_days # <<>> /\ preferred_blocks # <<>> THEN "high"
    ELSE IF preferred_days # <<>> \/ preferred_blocks # <<>> THEN "medium"
    ELSE "low"

\* schema-validated tasks carry an int >= 5; 0 or a missing value gives 30
_extract_duration(task) ==
    IF task.estimated_duration_min # 0 THEN task.estimated_duration_min ELSE 30

-----------------------------------------------------------------------------
(* Scheduling of a task list                                             *)

\* date.isoformat(): an ISO date string is represented by the day it names
IsoFormat(day) == [t |-> "isodate", day |-> day]

\* (user_context or {}): None reads like a dict without keys
NoUserContext ==
    [preferred_days |-> PyNone, preferred_time_blocks |-> <<>>, work_hours |-> PyNone]

\* one pass of the loop over target_days: acc holds daily_load,
\* last_long_day, daily_time_slots and the enriched list
PlaceOccurrence(acc, base, duration, cadence_struct, target_day, env) ==
    Bind(_schedule_on_or_after(target_day, env.preferred_days, duration, acc.daily_load,
                               acc.last_long_day, env.today_weekday),
         LAMBDA placed :
    Bind(_find_free_time_slot(
             _pick_time(env.time_pref, env.work_hours),
             IF placed.day \in DOMAIN acc.daily_time_slots
             THEN acc.daily_time_slots[placed.day] ELSE {}),
         LAMBDA slot :
        LET candidate_day == placed.day
            clone == [title |-> base.title,
                      intent |-> base.intent,
                      estimated_duration_min |-> duration,
                      cadence |-> base.cadence,
                      suggested_day |-> IsoFormat(candidate_day),
                      suggested_time |-> PyStr(slot.time),
                      confidence |-> env.confidence,
                      scheduled_day |-> IsoFormat(candidate_day),
                      scheduled_time |-> PyStr(slot.time),
                      note |-> base.note,
                      cadence_struct |-> PyDict(cadence_struct)]
        IN  [daily_load |-> placed.daily_load,
             last_long_day |-> IF duration # 0 /\ duration > LongSessionMinutes
                               THEN PyInt(candidate_day) ELSE acc.last_long_day,
             daily_time_slots |->
                 [d \in DOMAIN acc.daily_time_slots \cup {candidate_day} |->
                     IF d = candidate_day THEN slot.used_times
                     ELSE acc.daily_time_slots[d]],
             enriched |-> Append(acc.enriched, clone)]))

RECURSIVE PlaceOccurrences(_, _, _, _, _, _)
\* the loop over target_days
PlaceOccurrences(acc, base, duration, cadence_struct, target_days, env) ==
    IF target_days = <<>> THEN acc
    ELSE Bind(PlaceOccurrence(acc, base, duration, cadence_struct, Head(target_days), env),
              LAMBDA next :
             PlaceOccurrences(next, base, duration, cadence_struct, Tail(target_days), env))

RECURSIVE EnrichLoop(_, _, _, _)
\* the loop over tasks; the result is the enriched list or the exception
\* that ended the loop
EnrichLoop(tasks, acc, env, repeat_daily) ==
    IF tasks = <<>> THEN Return(acc.enriched)
    ELSE Bind(_build_cadence_struct(Head(tasks).cadence), LAMBDA built :
        IF built.err THEN built
        ELSE Bind(_expand_target_days(built.v, 0, repeat_daily, env.today_weekday),
                  LAMBDA expanded :
            IF expanded.err THEN expanded
            ELSE Bind(PlaceOccurrences(acc, Head(tasks), _extract_duration(Head(tasks)),
                                       built.v,
                                       IF expanded.v = <<>> THEN <<0>> ELSE expanded.v,
                                       env),
                      LAMBDA next :
                     EnrichLoop(Tail(tasks), next, env, repeat_daily))))

\* week_start = date.today() is day 0; today_weekday is its weekday()
_enrich_tasks_with_schedule(tasks, resolution_type, user_context, repeat_daily, today_weekday) ==
    Bind(_normalize_days(user_context.preferred_days), LAMBDA preferred_days :
        LET preferred_blocks == user_context.preferred_time_blocks
            env == [preferred_days |-> preferred_days,
                    work_hours |-> user_context.work_hours,
                    confidence |-> _confidence_level(preferred_days, preferred_blocks),
                    time_pref |-> _preferred_time_for_resolution(resolution_type,
                                                                 preferred_blocks),
                    today_weekday |-> today_weekday]
            start == [daily_load |-> << >>, last_long_day |-> PyNone,
                      daily_time_slots |-> << >>, enriched |-> <<>>]
        IN  EnrichLoop(tasks, start, env, repeat_daily))

-----------------------------------------------------------------------------
(* Plans: post-processing and finalization                               *)

\* TaskDraft(...).model_dump() of a task the schema accepts
TaskDraft(title, intent, estimated_duration_min, cadence, note) ==
    [title |-> title, intent |-> intent,
     estimated_duration_min |-> estimated_duration_min,
     cadence |-> cadence,
     suggested_day |-> PyNone, suggested_time |-> PyNone,
     confidence |-> "medium",
     scheduled_day |-> PyNone, scheduled_time |-> PyNone,
     note |-> note]

_stringify_cadence(struct) ==
    Bind(_normalize_cadence_struct(struct).v, LAMBDA normalized :
    Bind(PyToStr(PyOr(PyOr(normalized.type, normalized.cadence), PyStr(""))),
         LAMBDA cadence_type :
        LET count == PyOr(normalized.count, normalized.times_per_week)
            days == normalized.days
            prefix == StrSplitOn(cadence_type, "x")[1]
        IN  IF cadence_type = "daily" THEN "daily"
            ELSE IF cadence_type \in {"one_time", "once"} THEN "once"
            ELSE IF cadence_type \in {"x_per_week", "times_per_week"} /\ Truthy(count)
            THEN PyToStr(count) \o "x per week"
            ELSE IF StrEndsWith(cadence_type, "x_per_week") /\ StrIsDigit(prefix)
            THEN prefix \o "x per week"
            ELSE IF cadence_type = "specific_days" /\ Truthy(days)
            THEN "Specific days: "
                 \o StrJoin(", ", [i \in 1..Len(days.list) |->
                                      StrCapitalize(PyToStr(days.list[i]))])
            ELSE IF cadence_type # "" THEN cadence_type ELSE "flex"))

\* the task without its _cadence_struct key, its cadence a str
_public_task_data(task) ==
    LET own == IF "cadence_struct" \in DOMAIN task THEN task.cadence_struct ELSE PyNone
        cadence_struct == IF task.cadence.t = "dict" THEN PyOr(own, task.cadence) ELSE own
        cleaned == [f \in DOMAIN task \ {"cadence_struct"} |-> task[f]]
    IN  IF cadence_struct.t = "dict"
        THEN [cleaned EXCEPT !.cadence = PyStr(_stringify_cadence(cadence_struct.dict))]
        ELSE cleaned

PublicTasks(tasks) == [i \in 1..Len(tasks) |-> _public_task_data(tasks[i])]

\* variant: the first section of a weeks list already present is left as the
\* answer gave it
UnmirroredWeeks(plan_dict, enriched_week1) ==
    IF plan_dict.weeks = <<>>
    THEN [idx \in 1..Len(plan_dict.milestones) |->
             [week |-> plan_dict.milestones[idx].week_number,
              focus |-> IF plan_dict.milestones[idx].focus_summary # ""
                        THEN PyStr(plan_dict.milestones[idx].focus_summary) ELSE PyNone,
              tasks |-> IF idx = 1 THEN enriched_week1 ELSE <<>>]]
    ELSE plan_dict.weeks

\* the weeks list when the plan has none, else the plan's weeks with the
\* first section's tasks replaced
MirroredWeeks(plan_dict, enriched_week1) ==
    IF plan_dict.weeks = <<>>
    THEN [idx \in 1..Len(plan_dict.milestones) |->
             [week |-> plan_dict.milestones[idx].week_number,
              focus |-> IF plan_dict.milestones[idx].focus_summary # ""
                        THEN PyStr(plan_dict.milestones[idx].focus_summary) ELSE PyNone,
              tasks |-> IF idx = 1 THEN enriched_week1 ELSE <<>>]]
    ELSE [plan_dict.weeks EXCEPT ![1].tasks = enriched_week1]

_post_process_plan(plan_dict, resolution_type, user_context, today_weekday) ==
    Bind(_enrich_tasks_with_schedule(plan_dict.week_1_tasks, resolution_type, user_context,
                                     TRUE, today_weekday),
         LAMBDA enriched_week1 :
        IF enriched_week1.err THEN enriched_week1
        ELSE Return([plan_dict EXCEPT
                 !.week_1_tasks = enriched_week1.v,
                 !.weeks = MirroredWeeks(plan_dict, enriched_week1.v)]))

-----------------------------------------------------------------------------
(* Specialty templates and the deterministic fallback plan               *)

MusicSkillTasks == <<
    [title |-> "Stage instrument and tuner",
     intent |-> "Make practice frictionless by prepping the instrument corner and tuner.",
     note |-> "Lay out instrument, tuner, metronome app, and current sheet music.",
     duration |-> 10,
     cadence |-> PyStr("flex")],
    [title |-> "Chromatic scale warm-up (C to C)",
     intent |-> "Rebuild finger agility and tone before diving into repertoire.",
     note |-> "Metronome 70 BPM, 3 passes legato + 3 passes staccato while focusing on even tone.",
     duration |-> 20,
     cadence |-> CadenceDict(PyStr("specific_days"), PyNone, PyList(<<PyStr("monday"), PyStr("wednesday"), PyStr("friday")>>), PyList(<<PyStr("evening")>>))],
    [title |-> "Chord progression loop (I-IV-V)",
     intent |-> "Lock in smooth transitions at a sustainable tempo.",
     note |-> "Loop the progression for 15 minutes, record a take, jot one insight about tension/release.",
     duration |-> 25,
     cadence |-> CadenceDict(PyStr("x_per_week"), PyInt(3), PyNone, PyList(<<PyStr("evening")>>))] >>

FitnessTasks == <<
    [title |-> "Stage running kit",
     intent |-> "Signal commitment by staging shoes, clothes, bottle, and timer.",
     note |-> "Lay everything out near the door so mornings stay effortless.",
     duration |-> 10,
     cadence |-> PyStr("flex")],
    [title |-> "Run-walk interval: 30 minutes",
     intent |-> "Introduce running with structured intervals to hit the target duration.",
     note |-> "Alternate 2 min run / 1 min walk for 10 rounds; note effort 1-10.",
     duration |-> 30,
     cadence |-> CadenceDict(PyStr("x_per_week"), PyInt(2), PyNone, PyList(<<PyStr("morning")>>))],
    [title |-> "Mobility + strides",
     intent |-> "Keep joints healthy and reinforce running form on non-run days.",
     note |-> "10 min mobility (90/90 switches) plus 4 x 20-second strides.",
     duration |-> 20,
     cadence |-> CadenceDict(PyStr("x_per_week"), PyInt(2), PyNone, PyList(<<PyStr("morning")>>))] >>

HabitTasks == <<
    [title |-> "Design habit trigger + environment",
     intent |-> "Pair the habit with a reliable cue so it happens automatically.",
     note |-> "Decide the cue (e.g., after brushing teeth) and stage supplies where the cue happens.",
     duration |-> 10,
     cadence |-> PyStr("flex")],
    [title |-> "Two-minute starter rep",
     intent |-> "Shrink the habit so starting feels effortless.",
     note |-> "Run a 2-minute version of the habit daily to prove it fits (timer on phone).",
     duration |-> 5,
     cadence |-> CadenceDict(PyStr("daily"), PyNone, PyNone, PyList(<<PyStr("morning")>>))],
    [title |-> "Evening reflection note",
     intent |-> "Capture one line about how the habit felt to reinforce identity.",
     note |-> "Log a quick win or friction point in Notes before bed.",
     duration |-> 5,
     cadence |-> CadenceDict(PyStr("daily"), PyNone, PyNone, PyList(<<PyStr("evening")>>))] >>

ProjectTasks == <<
    [title |-> "Reset workspace + capture blockers",
     intent |-> "Clear physical and digital distractions before execution.",
     note |-> "Archive stale tabs, dump blockers into a scratchpad, and reopen the project doc.",
     duration |-> 15,
     cadence |-> PyStr("flex")],
    [title |-> "Draft outline for {goal_focus}",
     intent |-> "Define the structure of the week's deliverable before filling details.",
     note |-> "Sketch bullet outline with intro/sections/outro; mark unknowns with '?' for follow-up.",
     duration |-> 30,
     cadence |-> CadenceDict(PyStr("x_per_week"), PyInt(2), PyNone, PyList(<<PyStr("morning")>>))],
    [title |-> "Ship micro-deliverable + summary",
     intent |-> "Finish a tangible slice and log what changed.",
     note |-> "Complete one section or ticket, then send a 3-bullet summary/report in your tracker.",
     duration |-> 30,
     cadence |-> CadenceDict(PyStr("x_per_week"), PyInt(2), PyNone, PyList(<<PyStr("evening")>>))] >>

SkillGenericTasks == <<
    [title |-> "Stage study/practice zone",
     intent |-> "Remove friction by prepping tools, notes, and focus playlist.",
     note |-> "Close irrelevant tabs, gather materials, and set a 30-minute timer.",
     duration |-> 10,
     cadence |-> PyStr("flex")],
    [title |-> "Deliberate practice block: hardest subskill",
     intent |-> "Attack the most intimidating part of {goal_focus} with intention.",
     note |-> "Pick one micro-skill, run a 20-minute drill, and log accuracy or speed.",
     duration |-> 25,
     cadence |-> CadenceDict(PyStr("x_per_week"), PyInt(3), PyNone, PyList(<<PyStr("evening")>>))],
    [title |-> "Reflection + adjustments",
     intent |-> "Integrate lessons so the next session improves.",
     note |-> "Write 3 bullets: what worked, what needs help, what to try next.",
     duration |-> 10,
     cadence |-> CadenceDict(PyStr("specific_days"), PyNone, PyList(<<PyStr("sunday")>>), PyList(<<PyStr("evening")>>))] >>

GenericTasks == <<
    [title |-> "Clarify outcome + definition of done",
     intent |-> "Write down what success looks like so every task aligns.",
     note |-> "List 2-3 objective signals that prove {goal_focus} progressed.",
     duration |-> 15,
     cadence |-> PyStr("flex")],
    [title |-> "Protect one focus block",
     intent |-> "Schedule time on the calendar dedicated to the goal.",
     note |-> "Block a 25-minute session and silence notifications.",
     duration |-> 25,
     cadence |-> CadenceDict(PyStr("x_per_week"), PyInt(3), PyNone, PyList(<<PyStr("morning")>>))],
    [title |-> "Capture insights + next micro-step",
     intent |-> "End Week 1 with clarity on what to adjust.",
     note |-> "Log one win, one friction, and the smallest next action.",
     duration |-> 10,
     cadence |-> CadenceDict(PyStr("specific_days"), PyNone, PyList(<<PyStr("sunday")>>), PyList(<<PyStr("evening")>>))] >>

\* SPECIALTY_CONFIG in the order the dict is written: key, types, keywords
\* and task templates (the prompt hints are not modelled)
SPECIALTY_CONFIG == <<
    [key |-> "music_skill", types |-> {"skill", "learning"},
     keywords |-> {"music", "guitar", "piano", "violin", "cello", "drum", "vocal",
                   "sing", "song"},
     tasks |-> MusicSkillTasks],
    [key |-> "fitness", types |-> {"health", "fitness", "habit"},
     keywords |-> {"run", "running", "cardio", "workout", "gym", "yoga", "strength",
                   "training"},
     tasks |-> FitnessTasks],
    [key |-> "habit", types |-> {"habit"},
     keywords |-> {"routine", "mindful", "journal", "sleep", "morning", "evening"},
     tasks |-> HabitTasks],
    [key |-> "project", types |-> {"project", "work"},
     keywords |-> {"project", "launch", "deck", "presentation", "website", "build"},
     tasks |-> ProjectTasks],
    [key |-> "skill_generic", types |-> {"skill", "learning"}, keywords |-> {},
     tasks |-> SkillGenericTasks],
    [key |-> "generic", types |-> {}, keywords |-> {}, tasks |-> GenericTasks] >>

TYPE_DEFAULT_TEMPLATE(normalized_type) ==
    CASE normalized_type \in {"skill", "learning"}  -> "skill_generic"
      [] normalized_type = "habit"                  -> "habit"
      [] normalized_type \in {"health", "fitness"}  -> "fitness"
      [] normalized_type \in {"project", "work"}    -> "project"
      [] OTHER                                      -> "generic"

\* resolution_type is None or a str
_detect_specialty_key(user_input, resolution_type) ==
    Bind(StrLower(user_input), LAMBDA text :
    Bind(StrLower(PyToStr(PyOr(resolution_type, PyStr("")))), LAMBDA normalized_type :
        LET hit(i) == /\ \E keyword \in SPECIALTY_CONFIG[i].keywords :
                            StrContains(text, keyword)
                      /\ \/ SPECIALTY_CONFIG[i].types = {}
                         \/ normalized_type = ""
                         \/ normalized_type \in SPECIALTY_CONFIG[i].types
        IN  Bind({i \in 1..Len(SPECIALTY_CONFIG) : hit(i)}, LAMBDA hits :
                IF hits # {}
                THEN SPECIALTY_CONFIG[CHOOSE i \in hits : \A j \in hits : i <= j].key
                ELSE TYPE_DEFAULT_TEMPLATE(normalized_type))))

SpecialtyTasks(key) ==
    LET i == CHOOSE k \in 1..Len(SPECIALTY_CONFIG) : SPECIALTY_CONFIG[k].key = key
    IN  SPECIALTY_CONFIG[i].tasks

RECURSIVE StrReplace(_, _, _)
\* s.replace(old, new) for a non-empty old
StrReplace(s, old, new) ==
    LET at == {i \in 1..(Len(s) - Len(old) + 1) : SubSeq(s, i, i + Len(old) - 1) = old}
        i == CHOOSE k \in at : \A j \in at : k <= j
    IN  IF at = {} THEN s
        ELSE SubSeq(s, 1, i - 1) \o new
             \o StrReplace(SubSeq(s, i + Len(old), Len(s)), old, new)

_goal_focus_phrase(user_input) ==
    Bind(StrStrip(user_input), LAMBDA cleaned :
        IF cleaned = "" THEN "your goal"
        ELSE Bind(StrSplitWs(StrReplace(cleaned, "\n", " ")), LAMBDA tokens :
             Bind(StrStrip(StrJoin(" ", SubSeq(tokens, 1, Min(6, Len(tokens))))),
                  LAMBDA snippet :
                 IF snippet # "" THEN snippet ELSE "your goal")))

\* value.format(goal_focus=goal_focus) for a str value; a template with any
\* other brace makes format raise, and the value is returned unchanged
_format_template_text(value, goal_focus) ==
    LET rest == StrReplace(value, "{goal_focus}", "")
    IN  IF StrContains(rest, "{") \/ StrContains(rest, "}") THEN value
        ELSE StrReplace(value, "{goal_focus}", goal_focus)

_default_duration(resolution_type) ==
    LET normalized == StrLower(PyToStr(PyOr(resolution_type, PyStr(""))))
    IN  IF normalized \in {"habit", "skill", "learning"} THEN 30
        ELSE IF normalized \in {"health", "fitness"} THEN 25
        ELSE IF normalized \in {"project", "work"} THEN 45
        ELSE 30

_default_cadence(resolution_type) ==
    LET normalized == StrLower(PyToStr(PyOr(resolution_type, PyStr(""))))
    IN  IF normalized \in {"habit", "skill", "learning"} THEN "daily performance windows"
        ELSE IF normalized \in {"health", "fitness"} THEN "5x weekly mornings"
        ELSE "3-4x weekly focus blocks"

focus_templates == <<
    "Ground yourself and set a compassionate baseline.",
    "Design tiny rituals that keep momentum alive.",
    "Practice the core habit consistently with checkpoints.",
    "Review progress and celebrate micro wins." >>

-----------------------------------------------------------------------------
(* The plan schema (pydantic models) and the fallback plan               *)

\* TaskDraft: estimated_duration_min has ge=5
TaskDraftValid(task) == task.estimated_duration_min >= 5

\* WeeklyMilestone: week_number has ge=1, le=12
WeeklyMilestoneValid(milestone) == milestone.week_number \in 1..12

\* ResolutionPlan: duration_weeks 1..12, 1..12 milestones, at least one
\* week-1 task, every nested model valid
ResolutionPlanValid(plan) ==
    /\ plan.duration_weeks \in 1..12
    /\ Len(plan.milestones) \in 1..12
    /\ \A i \in 1..Len(plan.milestones) : WeeklyMilestoneValid(plan.milestones[i])
    /\ Len(plan.week_1_tasks) >= 1
    /\ \A i \in 1..Len(plan.week_1_tasks) : TaskDraftValid(plan.week_1_tasks[i])
    /\ \A w \in 1..Len(plan.weeks) :
          \A i \in 1..Len(plan.weeks[w].tasks) : TaskDraftValid(plan.weeks[w].tasks[i])

\* variant: the requested number of weeks is not clamped
FallbackWeeksUnclamped(duration_weeks) ==
    IF duration_weeks # 0 THEN duration_weeks ELSE 8

\* weeks = max(4, min(12, duration_weeks or 8))
FallbackWeeks(duration_weeks) ==
    Max(4, Min(12, IF duration_weeks # 0 THEN duration_weeks ELSE 8))

\* variant: the loop runs over range(1, weeks)
FallbackMilestonesShort(weeks) ==
    [week \in 1..(weeks - 1) |->
        [week_number |-> week,
         focus_summary |-> focus_templates[Min(week - 1, Len(focus_templates) - 1) + 1]
                           \o " (Week " \o IntToStr(week) \o ")"]]

\* the milestones list built by the loop over range(1, weeks + 1)
FallbackMilestones(weeks) ==
    [week \in 1..weeks |->
        [week_number |-> week,
         focus_summary |-> focus_templates[Min(week - 1, Len(focus_templates) - 1) + 1]
                           \o " (Week " \o IntToStr(week) \o ")"]]

\* week_tasks_raw, each TaskDraft dumped to a dict
FallbackRawTasks(task_templates, goal_focus, resolution_type) ==
    [i \in 1..Len(task_templates) |->
        TaskDraft(_format_template_text(task_templates[i].title, goal_focus),
                  _format_template_text(task_templates[i].intent, goal_focus),
                  IF task_templates[i].duration # 0 THEN task_templates[i].duration
                  ELSE _default_duration(resolution_type),
                  IF Truthy(task_templates[i].cadence) THEN task_templates[i].cadence
                  ELSE PyStr(_default_cadence(resolution_type)),
                  PyStr(_format_template_text(task_templates[i].note, goal_focus)))]

\* resolution_title: title if len(title) < 120 else title[:117] + "..."
FallbackTitle(user_input) ==
    LET stripped == StrStrip(user_input)
        title == IF stripped # "" THEN stripped ELSE "FlowBuddy Goal"
    IN  IF Len(title) < 120 THEN title ELSE SubSeq(title, 1, 117) \o "..."

\* the result is the dumped plan, or the exception a pydantic constructor
\* or the scheduler raises
_fallback_plan(user_input, duration_weeks, resolution_type, user_context, band, band_rationale, today_weekday) ==
    LET weeks == FallbackWeeks(duration_weeks)
        specialty_key == _detect_specialty_key(user_input, resolution_type)
        task_templates == SpecialtyTasks(specialty_key)
        goal_focus == _goal_focus_phrase(user_input)
        milestones == FallbackMilestones(weeks)
        week_sections(public) ==
            [i \in 1..Len(milestones) |->
                [week |-> milestones[i].week_number,
                 focus |-> PyStr(milestones[i].focus_summary),
                 tasks |-> IF milestones[i].week_number = 1 THEN public ELSE <<>>]]
        plan(public) ==
            [resolution_title |-> FallbackTitle(user_input),
             why_this_matters |->
                 "Sarathi AI reminder: name the emotional stake so motivation feels grounded.",
             duration_weeks |-> weeks,
             milestones |-> milestones,
             week_1_tasks |-> public,
             weeks |-> week_sections(public),
             band |-> band,
             band_rationale |-> band_rationale,
             evaluation_summary |-> << >>]
    IN  Bind(FallbackRawTasks(task_templates, goal_focus, resolution_type),
             LAMBDA week_tasks_raw :
            IF \E i \in 1..Len(week_tasks_raw) : ~TaskDraftValid(week_tasks_raw[i])
            THEN Raise("ValidationError")
            ELSE Bind(_enrich_tasks_with_schedule(week_tasks_raw, resolution_type,
                                                  user_context, FALSE, today_weekday),
                      LAMBDA enriched_tasks :
                IF enriched_tasks.err THEN enriched_tasks
                ELSE Bind(plan(PublicTasks(enriched_tasks.v)), LAMBDA built :
                         IF ~ResolutionPlanValid(built) THEN Raise("ValidationError")
                         ELSE Return(built))))

-----------------------------------------------------------------------------
(* Evaluation and finalization                                           *)

\* EvaluationResult of the plan evaluator, whose code is not part of the
\* sources: passed is a deterministic function of the plan, and
\* repair_instructions carries a digest of the violations exactly when
\* passed is false
EvaluationResult(passed) ==
    [passed |-> passed,
     repair_instructions |-> IF passed THEN PyNone
                             ELSE PyStr("digest of the violations")]

\* the verdicts the evaluator can give on plan_dict, given the verdicts it
\* has given in this request
Verdicts(plan_dict, judged) ==
    IF \E j \in judged : j.plan = plan_dict
    THEN {j.passed : j \in {k \in judged : k.plan = plan_dict}}
    ELSE BOOLEAN

FinalizeParams ==
    {"plan_dict", "evaluation", "band_label", "band_rationale", "repair_used",
     "regenerate_used", "fallback_used"}

\* args maps the parameters the call binds, by position or by keyword, to
\* their values; Python raises TypeError when a parameter without a
\* default is not bound
_finalize_plan(args) ==
    IF FinalizeParams \ DOMAIN args # {} THEN Raise("TypeError")
    ELSE LET summary == [passed |-> args.evaluation.passed,
                         repair_instructions |-> args.evaluation.repair_instructions,
                         repair_used |-> args.repair_used,
                         regenerate_used |-> args.regenerate_used,
                         fallback_used |-> args.fallback_used]
             plan_dict == args.plan_dict
         IN  Return([plan_dict EXCEPT
                 !.band = args.band_label,
                 !.band_rationale = args.band_rationale,
                 !.evaluation_summary = summary,
                 !.week_1_tasks = PublicTasks(plan_dict.week_1_tasks),
                 !.weeks = [w \in 1..Len(plan_dict.weeks) |->
                               [plan_dict.weeks[w] EXCEPT
                                   !.tasks = PublicTasks(plan_dict.weeks[w].tasks)]]])

-----------------------------------------------------------------------------
(* Requests and the answers of the language model                        *)

MaxRequestedWeeks == 13

\* a goal text of 132 characters: its title is cut to 117 characters + "..."
LongGoalText ==
    "Build a calm weekly routine for deep reading and long walks so that every single "
    \o "Sunday ends with a written review of the week ahead"

ApiKeys == {PyNone, PyStr("test-key")}

BusyUserContext ==
    [preferred_days |-> PyList(<<PyStr("Monday"), PyStr("wednesday "), PyStr("sat")>>),
     preferred_time_blocks |-> <<" Morning">>,
     work_hours |-> PyStr("07:00 - 17:00")]

\* goal text, requested weeks, resolution type, user context, today's weekday
Scenarios ==
    {<<"Master piano", 6, PyStr("skill"), NoUserContext, 0>>,
     <<LongGoalText, 0, PyStr("Habit"), BusyUserContext, 5>>,
     <<"  ", MaxRequestedWeeks, PyNone, NoUserContext, 5>>,
     <<"Launch website {v2}\nthis spring and keep it going", MaxRequestedWeeks, PyNone,
       BusyUserContext, 0>>}

Requests ==
    {[user_input |-> s[1], duration_weeks |-> s[2], resolution_type |-> s[3],
      user_context |-> s[4], effort_band |-> PyNone, band_rationale |-> PyNone,
      api_key |-> k, today_weekday |-> s[5]] : s \in Scenarios, k \in ApiKeys}

\* the plan JSON of tests/test_plan_repair_flow.py: _build_plan_json
FixturePlan(task_title, duration) ==
    LET task == TaskDraft(task_title, "Focus", duration, PyStr("daily"), PyStr(""))
    IN  [resolution_title |-> "Test Plan",
         why_this_matters |-> "",
         duration_weeks |-> 6,
         milestones |-> <<[week_number |-> 1, focus_summary |-> "Week 1"],
                          [week_number |-> 2, focus_summary |-> "Week 2"]>>,
         week_1_tasks |-> <<task>>,
         weeks |-> <<[week |-> 1, focus |-> PyStr("Week 1"), tasks |-> <<task>>],
                     [week |-> 2, focus |-> PyStr("Week 2"), tasks |-> <<>>]>>,
         band |-> "medium",
         band_rationale |-> "default",
         evaluation_summary |-> << >>]

\* a plan without a weeks list, whose tasks carry cadence dicts
DictCadencePlan(count) ==
    [resolution_title |-> "Run a 5k",
     why_this_matters |-> "Health",
     duration_weeks |-> 4,
     milestones |-> [w \in 1..4 |-> [week_number |-> w, focus_summary |-> ""]],
     week_1_tasks |->
         <<TaskDraft("Lay out running shoes by the door", "Setup", 5,
                     PyStr("Once"), PyNone),
           TaskDraft("Run-walk 8 rounds of 2 min / 1 min", "Build the base", 75,
                     CadenceDict(PyStr("X_Per_Week"), count, PyNone, PyNone), PyNone)>>,
     weeks |-> <<>>,
     band |-> "medium",
     band_rationale |-> "Default effort band",
     evaluation_summary |-> << >>]

\* what one chat completion call can do: raise, answer with text that is no
\* JSON object of the schema, or answer with a plan
LLMResponses ==
    {[kind |-> "raise"], [kind |-> "garbage"]}
    \cup {[kind |-> "json", plan |-> p] :
            p \in {FixturePlan("Practice", 20),
                   FixturePlan("Practice major scales hands separately", 30),
                   [FixturePlan("Practice", 200) EXCEPT !.week_1_tasks = <<>>],
                   DictCadencePlan(PyInt(3)),
                   DictCadencePlan(PyStr("three"))}}

-----------------------------------------------------------------------------
(* decompose_resolution_with_llm: one request                            *)

VARIABLES
    req,              \* the arguments of the call, the configured API key and today's weekday
    pc,               \* position in the ladder
    plan_dict,        \* the local plan_dict
    evaluation,       \* the local evaluation
    repair_used,
    regenerate_used,
    fallback_used,
    events,           \* the LLM calls, evaluations and fallback builds so far, in order
    judged,           \* the verdicts the evaluator has given in this request
    result,           \* the plan returned to the caller
    exception         \* the exception that reached the caller, "" when none

ladder_vars == <<req, pc, plan_dict, evaluation, repair_used, regenerate_used,
                 fallback_used, events, judged, result, exception>>

\* the state of the other components, which a plan-generation request
\* leaves alone
VARIABLES
    inv,              \* the running invocations of _enrich_tasks_with_schedule
    specialty_config  \* the module-level table SPECIALTY_CONFIG

scheduler_vars == <<inv, specialty_config>>

VARIABLES
    service_call,     \* the call of a service function under way: the function, its
                      \* arguments and, once it has returned, what it returned
    db                \* the database: users, resolutions, tasks and the action log

service_vars == <<service_call, db>>

outside_ladder == <<scheduler_vars, service_vars>>

vars == <<ladder_vars, outside_ladder>>

\* no invocation of the scheduler is running
SchedulerIdle ==
    /\ inv = << >>
    /\ specialty_config = SPECIALTY_CONFIG

Unset == [unset |-> TRUE]

\* no service function is being called
ServicesIdle ==
    /\ service_call = Unset
    /\ db = Unset

\* no database session is open
DatabaseIdle == db = Unset

sanitized_weeks == Max(4, Min(12, req.duration_weeks))

band_label == PyToStr(PyOr(req.effort_band, PyStr("medium")))

band_rationale == PyToStr(PyOr(req.band_rationale, PyStr("Defaulted effort band.")))

\* client = openai.OpenAI(api_key=api_key) if api_key else None
client == Truthy(req.api_key)

\* one chat completion, validation of the answer and post-processing; the
\* result is the plan or the exception raised
_generate_plan_via_llm(response, resolution_type, user_context, today_weekday) ==
    IF response.kind = "raise" THEN Raise("APIError")
    ELSE IF response.kind = "garbage" THEN Raise("ValidationError")
    ELSE IF ~ResolutionPlanValid(response.plan) THEN Raise("ValidationError")
    ELSE _post_process_plan(response.plan, resolution_type, user_context, today_weekday)

\* the same steps inside try/except Exception: None in place of the plan
_repair_plan_via_llm(response, resolution_type, user_context, today_weekday) ==
    Bind(_generate_plan_via_llm(response, resolution_type, user_context, today_weekday),
         LAMBDA made : IF made.err THEN PyNone ELSE PyDict(made.v))

_regenerate_plan_with_feedback(response, resolution_type, user_context, today_weekday) ==
    Bind(_generate_plan_via_llm(response, resolution_type, user_context, today_weekday),
         LAMBDA made : IF made.err THEN PyNone ELSE PyDict(made.v))

\* variant: the test of repair_instructions is inverted
RepairWithoutInstructions(ev) == ~ev.passed /\ ~Truthy(ev.repair_instructions)

\* if not evaluation.passed and evaluation.repair_instructions
RepairCondition(ev) == ~ev.passed /\ Truthy(ev.repair_instructions)

\* variant: the verdict is not tested
RegenerateWheneverClient(ev, has_client) == has_client

\* if not evaluation.passed and client
RegenerateCondition(ev, has_client) == ~ev.passed /\ has_client

\* variant: the fallback plan is built whatever the verdict
FallbackAlways(ev) == TRUE

\* if not evaluation.passed
FallbackCondition(ev) == ~ev.passed

\* variant: after the repair stage the ladder goes on to the fallback
StageWithoutRegenerate(stage, ev, has_client) ==
    IF stage = "generate" /\ RepairCondition(ev) THEN "repair"
    ELSE IF stage = "generate" /\ RegenerateCondition(ev, has_client) THEN "regenerate"
    ELSE IF FallbackCondition(ev) THEN "fallback"
    ELSE "finalize"

\* the stage control reaches after the evaluation that follows `stage`
StageAfter(stage, ev, has_client) ==
    IF stage = "generate" /\ RepairCondition(ev) THEN "repair"
    ELSE IF stage \in {"generate", "repair"} /\ RegenerateCondition(ev, has_client)
    THEN "regenerate"
    ELSE IF stage \in {"generate", "repair", "regenerate"} /\ FallbackCondition(ev)
    THEN "fallback"
    ELSE "finalize"

LLMCall(call) == [ev |-> "llm", call |-> call]

Evaluated(ev) == [ev |-> "eval", passed |-> ev.passed,
                  instructions |-> Truthy(ev.repair_instructions)]

FallbackBuilt == [ev |-> "fallback"]

\* the arguments of the call at the end of the no-credential path
NoCredentialFinalizeArgs(plan, ev) ==
    [plan_dict |-> plan, evaluation |-> ev, band_label |-> band_label,
     band_rationale |-> band_rationale, repair_used |-> FALSE, fallback_used |-> TRUE]

\* variant: the summary never says that the fallback plan was used
FinalizeArgsWithoutFallback ==
    [plan_dict |-> plan_dict, evaluation |-> evaluation, band_label |-> band_label,
     band_rationale |-> band_rationale, repair_used |-> repair_used,
     regenerate_used |-> regenerate_used, fallback_used |-> FALSE]

\* the arguments of the call at the end of the ladder
LadderFinalizeArgs ==
    [plan_dict |-> plan_dict, evaluation |-> evaluation, band_label |-> band_label,
     band_rationale |-> band_rationale, repair_used |-> repair_used,
     regenerate_used |-> regenerate_used, fallback_used |-> fallback_used]

Init ==
    /\ req \in Requests
    /\ pc = "start"
    /\ plan_dict = Unset
    /\ evaluation = Unset
    /\ repair_used = FALSE
    /\ regenerate_used = FALSE
    /\ fallback_used = FALSE
    /\ events = <<>>
    /\ judged = {}
    /\ result = PyNone
    /\ exception = ""
    /\ SchedulerIdle
    /\ ServicesIdle

\* the function ends with the exception exc
Raises(exc) ==
    /\ pc' = "raised"
    /\ exception' = exc
    /\ result' = PyNone

\* the function returns the outcome of _finalize_plan
Finish(final) ==
    IF final.err THEN Raises(final.exc)
    ELSE /\ pc' = "done"
         /\ result' = PyDict(final.v)
         /\ exception' = ""

\* plan is evaluated and becomes the current plan
EvaluateAs(plan, passed) ==
    /\ plan_dict' = plan
    /\ evaluation' = EvaluationResult(passed)
    /\ judged' = judged \cup {[plan |-> plan, passed |-> passed]}

\* no API key: fallback plan, evaluation, finalization
NoCredential ==
    /\ pc = "start"
    /\ ~client
    /\ \E built \in {_fallback_plan(req.user_input, sanitized_weeks, req.resolution_type,
                                    req.user_context, band_label, band_rationale,
                                    req.today_weekday)} :
          IF built.err
          THEN /\ Raises(built.exc)
               /\ UNCHANGED <<plan_dict, evaluation, judged, events>>
          ELSE \E passed \in Verdicts(built.v, judged) :
                   /\ EvaluateAs(built.v, passed)
                   /\ events' = events \o <<FallbackBuilt, Evaluated(EvaluationResult(passed))>>
                   /\ Finish(_finalize_plan(
                          NoCredentialFinalizeArgs(built.v, EvaluationResult(passed))))
    /\ UNCHANGED <<req, repair_used, regenerate_used, fallback_used>>
    /\ UNCHANGED outside_ladder

\* the first LLM call and the evaluation of its plan
Generate ==
    /\ pc = "start"
    /\ client
    /\ \E response \in LLMResponses :
          \E made \in {_generate_plan_via_llm(response, req.resolution_type,
                                              req.user_context, req.today_weekday)} :
              IF made.err
              THEN /\ Raises(made.exc)
                   /\ events' = Append(events, LLMCall("generate"))
                   /\ UNCHANGED <<plan_dict, evaluation, judged>>
              ELSE \E passed \in Verdicts(made.v, judged) :
                       /\ EvaluateAs(made.v, passed)
                       /\ events' = events \o <<LLMCall("generate"),
                                                Evaluated(EvaluationResult(passed))>>
                       /\ pc' = StageAfter("generate", EvaluationResult(passed), client)
                       /\ UNCHANGED <<result, exception>>
    /\ UNCHANGED <<req, repair_used, regenerate_used, fallback_used>>
    /\ UNCHANGED outside_ladder

\* the repair call; a plan it yields replaces the current one and is evaluated
Repair ==
    /\ pc = "repair"
    /\ repair_used' = TRUE
    /\ \E response \in LLMResponses :
          \E repaired \in {_repair_plan_via_llm(response, req.resolution_type,
                                                req.user_context, req.today_weekday)} :
              IF Truthy(repaired)
              THEN \E passed \in Verdicts(repaired.dict, judged) :
                       /\ EvaluateAs(repaired.dict, passed)
                       /\ events' = events \o <<LLMCall("repair"),
                                                Evaluated(EvaluationResult(passed))>>
                       /\ pc' = StageAfter("repair", EvaluationResult(passed), client)
              ELSE /\ events' = Append(events, LLMCall("repair"))
                   /\ pc' = StageAfter("repair", evaluation, client)
                   /\ UNCHANGED <<plan_dict, evaluation, judged>>
    /\ UNCHANGED <<req, regenerate_used, fallback_used, result, exception>>
    /\ UNCHANGED outside_ladder

\* the regenerate call; a plan it yields replaces the current one and is evaluated
Regenerate ==
    /\ pc = "regenerate"
    /\ regenerate_used' = TRUE
    /\ \E response \in LLMResponses :
          \E regenerated \in {_regenerate_plan_with_feedback(
                                  response, req.resolution_type, req.user_context,
                                  req.today_weekday)} :
              IF Truthy(regenerated)
              THEN \E passed \in Verdicts(regenerated.dict, judged) :
                       /\ EvaluateAs(regenerated.dict, passed)
                       /\ events' = events \o <<LLMCall("regenerate"),
                                                Evaluated(EvaluationResult(passed))>>
                       /\ pc' = StageAfter("regenerate", EvaluationResult(passed), client)
              ELSE /\ events' = Append(events, LLMCall("regenerate"))
                   /\ pc' = StageAfter("regenerate", evaluation, client)
                   /\ UNCHANGED <<plan_dict, evaluation, judged>>
    /\ UNCHANGED <<req, repair_used, fallback_used, result, exception>>
    /\ UNCHANGED outside_ladder

\* the fallback plan replaces the current plan and is evaluated
Fallback ==
    /\ pc = "fallback"
    /\ fallback_used' = TRUE
    /\ \E built \in {_fallback_plan(req.user_input, sanitized_weeks, req.resolution_type,
                                    req.user_context, band_label, band_rationale,
                                    req.today_weekday)} :
          IF built.err
          THEN /\ Raises(built.exc)
               /\ UNCHANGED <<plan_dict, evaluation, judged, events>>
          ELSE \E passed \in Verdicts(built.v, judged) :
                   /\ EvaluateAs(built.v, passed)
                   /\ events' = events \o <<FallbackBuilt, Evaluated(EvaluationResult(passed))>>
                   /\ pc' = "finalize"
                   /\ UNCHANGED <<result, exception>>
    /\ UNCHANGED <<req, repair_used, regenerate_used>>
    /\ UNCHANGED outside_ladder

\* return _finalize_plan(...)
Finalize ==
    /\ pc = "finalize"
    /\ Finish(_finalize_plan(LadderFinalizeArgs))
    /\ UNCHANGED <<req, plan_dict, evaluation, repair_used, regenerate_used, fallback_used,
                   events, judged>>
    /\ UNCHANGED outside_ladder

Next == NoCredential \/ Generate \/ Repair \/ Regenerate \/ Fallback \/ Finalize

Spec == Init /\ [][Next]_vars

-----------------------------------------------------------------------------
(* Properties of one request                                             *)

\* the call has returned or raised
Ended == pc \in {"done", "raised"}

IsLLMCall(e, call) == e.ev = "llm" /\ e.call = call

IsVerdict(e, passed) == e.ev = "eval" /\ e.passed = passed

\* the names of the LLM calls issued so far, in order
LLMCalls ==
    LET calls == SelectSeq(events, LAMBDA e : e.ev = "llm")
    IN  [i \in 1..Len(calls) |-> calls[i].call]

\* the event before position i that is nearest to it and is a verdict says
\* failed
LatestVerdictFails(i) ==
    \E k \in 1..(i - 1) :
        /\ IsVerdict(events[k], FALSE)
        /\ \A m \in (k + 1)..(i - 1) : events[m].ev # "eval"

LadderRank(call) ==
    CASE call = "generate" -> 1 [] call = "repair" -> 2 [] call = "regenerate" -> 3

\* the plan the caller received is `plan` after finalization
ReturnedPlanIs(plan) ==
    /\ result.dict.resolution_title = plan.resolution_title
    /\ result.dict.why_this_matters = plan.why_this_matters
    /\ result.dict.duration_weeks = plan.duration_weeks
    /\ result.dict.milestones = plan.milestones
    /\ result.dict.week_1_tasks = PublicTasks(plan.week_1_tasks)

\* the initial generation call was issued and gave no plan to evaluate
GenerationFailed ==
    /\ events # <<>>
    /\ IsLLMCall(events[1], "generate")
    /\ (Len(events) = 1 \/ events[2].ev # "eval")

\* C1: every request that has ended has ended in DONE with a plan handed to
\* the caller; none has ended with an exception reaching the caller.
C1_EveryRequestEndsInDone ==
    Ended => pc = "done" /\ result.t = "dict" /\ exception = ""

\* C2: a request without a configured LLM credential that has ended has
\* issued no LLM call, has built the fallback plan and has returned it with
\* fallback_used = True and repair_used = False in its evaluation_summary.
C2_NoCredentialReturnsFallbackPlan ==
    (Ended /\ ~client) =>
        /\ LLMCalls = <<>>
        /\ events # <<>> /\ events[1] = FallbackBuilt
        /\ pc = "done"
        /\ result.dict.evaluation_summary.fallback_used
        /\ ~result.dict.evaluation_summary.repair_used

\* C3: when the initial generation call fails (the call raises, or its
\* answer fails parsing or schema validation), no exception reaches the
\* caller, and a request that has ended has returned a plan.
C3_GenerationFailureIsNotRaised ==
    GenerationFailed => pc # "raised" /\ (Ended => result.t = "dict")

\* C4: the LLM calls of one request are generate, repair, regenerate, each at
\* most once and in that order; the repair call directly follows a failed
\* verdict that carries repair instructions; the regenerate call and the
\* building of the fallback plan on the ladder happen only when the latest
\* verdict is a failed one.
C4_LadderOrder ==
    /\ Len(LLMCalls) <= 3
    /\ LLMCalls # <<>> => LLMCalls[1] = "generate"
    /\ \A i, j \in 1..Len(LLMCalls) :
          i < j => LadderRank(LLMCalls[i]) < LadderRank(LLMCalls[j])
    /\ \A i \in 1..Len(events) :
          /\ IsLLMCall(events[i], "repair") =>
                /\ i > 1
                /\ IsVerdict(events[i - 1], FALSE)
                /\ events[i - 1].instructions
          /\ IsLLMCall(events[i], "regenerate") => LatestVerdictFails(i)
          /\ events[i] = FallbackBuilt =>
                (i = 1 /\ ~client) \/ LatestVerdictFails(i)

\* a request that made all three LLM calls and then built the fallback plan
C4_Witness ==
    /\ LLMCalls = <<"generate", "repair", "regenerate">>
    /\ \E i \in 1..Len(events) : events[i] = FallbackBuilt

\* C5: a passing verdict is the last event of the request (no LLM call and
\* no fallback plan after it) and the plan that passed is the plan returned;
\* when the first plan fails and the repaired plan passes, the request ends
\* after those 2 LLM calls with repair_used = True, fallback_used = False
\* and passed = True in the evaluation_summary.
C5_LadderStopsAtFirstPass ==
    /\ \A i \in 1..Len(events) : IsVerdict(events[i], TRUE) => i = Len(events)
    /\ (pc = "done" /\ IsVerdict(events[Len(events)], TRUE)) =>
          /\ \A j \in judged : j.passed => ReturnedPlanIs(j.plan)
          /\ \E j \in judged : j.passed
          /\ result.dict.evaluation_summary.passed
    /\ (/\ Len(events) >= 4
        /\ IsLLMCall(events[1], "generate") /\ IsVerdict(events[2], FALSE)
        /\ IsLLMCall(events[3], "repair") /\ IsVerdict(events[4], TRUE)) =>
          /\ LLMCalls = <<"generate", "repair">>
          /\ pc \in {"finalize", "done"}
          /\ pc = "done" =>
                /\ result.dict.evaluation_summary.repair_used
                /\ ~result.dict.evaluation_summary.fallback_used
                /\ result.dict.evaluation_summary.passed

\* the first plan failed, the repaired plan passed and was returned
C5_Witness ==
    /\ pc = "done"
    /\ Len(events) = 4
    /\ IsVerdict(events[2], FALSE) /\ IsLLMCall(events[3], "repair")
    /\ IsVerdict(events[4], TRUE)
    /\ result.dict.evaluation_summary.repair_used

\* every LLM call of the request gave a plan, and every such plan failed
\* evaluation with repair instructions
EveryLLMPlanFails ==
    /\ LLMCalls # <<>>
    /\ \A i \in 1..Len(events) :
          events[i].ev = "llm" =>
              /\ i < Len(events)
              /\ IsVerdict(events[i + 1], FALSE)
              /\ events[i + 1].instructions

FallbackWasBuilt == \E i \in 1..Len(events) : events[i] = FallbackBuilt

\* the fallback plan of this request
RequestFallbackPlan ==
    _fallback_plan(req.user_input, sanitized_weeks, req.resolution_type, req.user_context,
                   band_label, band_rationale, req.today_weekday)

\* C6 as stated: when every plan the LLM returns fails evaluation, the
\* request makes exactly 2 LLM calls (generation and repair), then falls
\* back and returns the fallback plan with fallback_used = True and
\* repair_used = True.
C6_TwoCallsThenFallback ==
    (pc = "done" /\ EveryLLMPlanFails) =>
        /\ Len(LLMCalls) = 2
        /\ FallbackWasBuilt
        /\ result.dict.evaluation_summary.fallback_used
        /\ result.dict.evaluation_summary.repair_used

\* C6 amended: when every plan the LLM returns fails evaluation, the request
\* makes exactly 3 LLM calls (generation, repair, regenerate), then falls
\* back and returns the fallback plan with fallback_used, repair_used and
\* regenerate_used all True.
C6_ThreeCallsThenFallback ==
    (pc = "done" /\ EveryLLMPlanFails) =>
        /\ LLMCalls = <<"generate", "repair", "regenerate">>
        /\ FallbackWasBuilt
        /\ ReturnedPlanIs(RequestFallbackPlan.v)
        /\ result.dict.evaluation_summary.fallback_used
        /\ result.dict.evaluation_summary.repair_used
        /\ result.dict.evaluation_summary.regenerate_used

\* three LLM plans failed and the fallback plan was returned
C6_Witness ==
    /\ pc = "done"
    /\ EveryLLMPlanFails
    /\ Len(LLMCalls) = 3
    /\ result.dict.evaluation_summary.fallback_used

\* C7: every request that has built the fallback plan or returned a plan,
\* the no-credential path included, has returned a plan whose
\* evaluation_summary has repair_used, regenerate_used and fallback_used
\* true exactly when the repair call was issued, the regenerate call was
\* issued and the fallback plan was built.
C7_SummaryRecordsStagesExercised ==
    (Ended /\ (pc = "done" \/ FallbackWasBuilt)) =>
        /\ pc = "done"
        /\ result.dict.evaluation_summary.repair_used
               = (\E i \in 1..Len(LLMCalls) : LLMCalls[i] = "repair")
        /\ result.dict.evaluation_summary.regenerate_used
               = (\E i \in 1..Len(LLMCalls) : LLMCalls[i] = "regenerate")
        /\ result.dict.evaluation_summary.fallback_used = FallbackWasBuilt

\* goal types tried on the fallback plan besides the request's own
FallbackGoalTypes ==
    {PyNone, PyStr("skill"), PyStr("Habit"), PyStr("fitness"), PyStr("health"),
     PyStr("project"), PyStr("work"), PyStr("learning"), PyStr("other")}

\* the properties C8 lists
MeetsPlanSchema(plan) ==
    /\ plan.resolution_title # ""
    /\ plan.duration_weeks \in 1..12
    /\ Len(plan.milestones) \in 1..12
    /\ \A i \in 1..Len(plan.milestones) : plan.milestones[i].week_number \in 1..12
    /\ Len(plan.week_1_tasks) >= 1
    /\ \A i \in 1..Len(plan.week_1_tasks) : plan.week_1_tasks[i].estimated_duration_min >= 5
    /\ \A w \in 1..Len(plan.weeks) : \A i \in 1..Len(plan.weeks[w].tasks) :
          plan.weeks[w].tasks[i].estimated_duration_min >= 5

\* C8: for the request's goal text and user context, every goal type and
\* every requested duration, _fallback_plan returns a plan (it raises
\* nothing) that has a non-empty title, duration_weeks in 1..12, 1 to 12
\* milestones with week numbers in 1..12, at least one week-1 task and only
\* tasks of at least 5 minutes; the building of the fallback plan is
\* followed by its evaluation and by no LLM call, and the plan it made the
\* current one meets the same schema.
C8_FallbackPlanIsSchemaValid ==
    /\ pc = "start" =>
          \A weeks \in 0..MaxRequestedWeeks :
              \A goal_type \in FallbackGoalTypes \cup {req.resolution_type} :
                  LET built == _fallback_plan(req.user_input, weeks, goal_type,
                                              req.user_context, band_label, band_rationale,
                                              req.today_weekday)
                  IN  ~built.err /\ MeetsPlanSchema(built.v)
    /\ \A i \in 1..Len(events) :
          events[i] = FallbackBuilt =>
              /\ i < Len(events)
              /\ events[i + 1].ev = "eval"
              /\ \A k \in (i + 1)..Len(events) : events[k].ev # "llm"
              /\ MeetsPlanSchema(plan_dict)
              /\ plan_dict = RequestFallbackPlan.v

\* the fallback plan of a 12-week request was built after three LLM calls
\* and returned
C8_Witness ==
    /\ pc = "done"
    /\ FallbackWasBuilt
    /\ Len(LLMCalls) = 3
    /\ result.dict.duration_weeks = 12
    /\ MeetsPlanSchema(result.dict)

\* C9 as stated: every returned plan has as many milestones as its
\* duration_weeks.
C9_MilestonesEqualDurationWeeks ==
    pc = "done" => Len(result.dict.milestones) = result.dict.duration_weeks

\* C9 amended: every returned plan has between 1 and 12 milestones, and a
\* returned fallback plan has one milestone per week: as many milestones as
\* its duration_weeks, numbered 1..duration_weeks.
C9_FallbackMilestonesEqualDurationWeeks ==
    pc = "done" =>
        /\ Len(result.dict.milestones) \in 1..12
        /\ result.dict.evaluation_summary.fallback_used =>
              /\ Len(result.dict.milestones) = result.dict.duration_weeks
              /\ \A i \in 1..Len(result.dict.milestones) :
                    result.dict.milestones[i].week_number = i

\* a returned fallback plan of 4 weeks
C9_Witness ==
    /\ pc = "done"
    /\ result.dict.evaluation_summary.fallback_used
    /\ result.dict.duration_weeks = 4
    /\ Len(result.dict.milestones) = 4

\* C10: in every returned plan the task list of the first entry of weeks is
\* week_1_tasks: the same tasks with the same days and times, in the same
\* order.
C10_FirstWeekMirrorsWeek1Tasks ==
    pc = "done" =>
        /\ Len(result.dict.weeks) >= 1
        /\ result.dict.weeks[1].tasks = result.dict.week_1_tasks

\* a returned LLM plan that came with its own weeks list, with a scheduled
\* week-1 task
C10_Witness ==
    /\ pc = "done"
    /\ ~result.dict.evaluation_summary.fallback_used
    /\ result.dict.resolution_title = "Test Plan"
    /\ Len(result.dict.weeks) = 2
    /\ result.dict.week_1_tasks[1].suggested_day.t = "isodate"

-----------------------------------------------------------------------------
(* _enrich_tasks_with_schedule as a process: its two loops, step by step *)

\* the plan-generation ladder is not running
LadderIdle ==
    /\ req = Unset
    /\ pc = "idle"
    /\ plan_dict = Unset
    /\ evaluation = Unset
    /\ repair_used = FALSE
    /\ regenerate_used = FALSE
    /\ fallback_used = FALSE
    /\ events = <<>>
    /\ judged = {}
    /\ result = PyNone
    /\ exception = ""

outside_scheduler == <<ladder_vars, service_vars>>

MaxScheduledTasks == 3

MaxConcurrentTasks == 1

HeavyDailyTask == TaskDraft("Practice scales", "Build fluency", 30, PyStr("daily"), PyNone)

LightDailyTask == TaskDraft("Stretch", "Stay loose", 5, PyStr("Daily"), PyNone)

LongDailyTask == TaskDraft("Deep practice block", "Depth", 90, PyStr("daily"), PyNone)

LongOnceTask == TaskDraft("Record a full run-through", "Checkpoint", 90, PyStr("once"), PyNone)

\* a task whose cadence is a dict with the count given
CountedTask(count) ==
    TaskDraft("Run-walk intervals", "Build the base", 20,
              CadenceDict(PyStr("X_Per_Week"), count, PyNone, PyNone), PyNone)

\* the tasks an input list is made of
SchedulerTasks ==
    {HeavyDailyTask, LightDailyTask, LongDailyTask, LongOnceTask,
     CountedTask(PyInt(3)), CountedTask(PyStr("three"))}

MondayOnlyContext ==
    [preferred_days |-> PyList(<<PyStr("Monday")>>),
     preferred_time_blocks |-> <<>>,
     work_hours |-> PyNone]

\* resolution_type, user_context, repeat_daily and today's weekday
SchedulerArgs ==
    {[resolution_type |-> PyStr("skill"), user_context |-> NoUserContext,
      repeat_daily |-> TRUE, today_weekday |-> 0],
     [resolution_type |-> PyStr("habit"), user_context |-> MondayOnlyContext,
      repeat_daily |-> TRUE, today_weekday |-> 0],
     [resolution_type |-> PyNone, user_context |-> BusyUserContext,
      repeat_daily |-> FALSE, today_weekday |-> 5]}

\* the values computed before the loop over tasks
ScheduleEnv(args) ==
    LET preferred_days == _normalize_days(args.user_context.preferred_days)
        preferred_blocks == args.user_context.preferred_time_blocks
    IN  [preferred_days |-> preferred_days,
         work_hours |-> args.user_context.work_hours,
         confidence |-> _confidence_level(preferred_days, preferred_blocks),
         time_pref |-> _preferred_time_for_resolution(args.resolution_type,
                                                      preferred_blocks),
         today_weekday |-> args.today_weekday]

\* daily_load = {}, last_long_day = None, daily_time_slots = {}, enriched = []
LoopStart ==
    [daily_load |-> << >>, last_long_day |-> PyNone, daily_time_slots |-> << >>,
     enriched |-> <<>>]

NoTask == [none |-> TRUE]

NoPlacement == [none |-> TRUE]

\* an invocation that has not yet entered the loop over tasks; pool and limit
\* bound the input lists explored, expected counts the target days of the
\* tasks taken
NewInvocation(args, pool, limit) ==
    [args |-> args, env |-> ScheduleEnv(args), pool |-> pool, limit |-> limit,
     tasks |-> <<>>, acc |-> LoopStart, status |-> "loop", current |-> NoTask,
     expected |-> 0, last |-> NoPlacement, exception |-> ""]

\* variant: the loop state is one object shared by all invocations (a
\* module-level ledger, or a mutable default argument)
SharedLoopState(i) ==
    [inv[CHOOSE j \in DOMAIN inv : \A k \in DOMAIN inv : j <= k].acc
        EXCEPT !.enriched = inv[i].acc.enriched]

\* the ledger, the last long day, the time slots and the enriched list are
\* locals of the invocation
LoopState(i) == inv[i].acc

\* for original in tasks: the duration, the cadence struct and the target
\* days of the next task, or the exception raised while computing them
TakeTask ==
    /\ \E i \in DOMAIN inv :
          /\ inv[i].status = "loop"
          /\ Len(inv[i].tasks) < inv[i].limit
          /\ \E original \in inv[i].pool :
                \E built \in {_build_cadence_struct(original.cadence)} :
                    IF built.err
                    THEN inv' = [inv EXCEPT ![i].status = "raised",
                                            ![i].exception = built.exc,
                                            ![i].tasks = Append(@, original)]
                    ELSE \E expanded \in {_expand_target_days(
                                              built.v, 0, inv[i].args.repeat_daily,
                                              inv[i].args.today_weekday)} :
                             IF expanded.err
                             THEN inv' = [inv EXCEPT ![i].status = "raised",
                                                     ![i].exception = expanded.exc,
                                                     ![i].tasks = Append(@, original)]
                             ELSE inv' = [inv EXCEPT
                                     ![i].status = "placing",
                                     ![i].tasks = Append(@, original),
                                     ![i].expected =
                                         @ + Max(1, Len(expanded.v)),
                                     ![i].current =
                                         [base |-> original,
                                          duration |-> _extract_duration(original),
                                          cadence_struct |-> built.v,
                                          target_days |-> IF expanded.v = <<>> THEN <<0>>
                                                          ELSE expanded.v,
                                          placed |-> 0]]
    /\ UNCHANGED <<specialty_config, outside_scheduler>>

\* for target_day in target_days: one pass; `last` keeps the target day, the
\* day chosen and the loop state the pass started from
Place ==
    /\ \E i \in DOMAIN inv :
          /\ inv[i].status = "placing"
          /\ \E before \in {LoopState(i)} :
             \E target_day \in {inv[i].current.target_days[inv[i].current.placed + 1]} :
             \E after \in {PlaceOccurrence(before, inv[i].current.base,
                                           inv[i].current.duration,
                                           inv[i].current.cadence_struct, target_day,
                                           inv[i].env)} :
                inv' = [inv EXCEPT
                    ![i].acc = after,
                    ![i].last = [target_day |-> target_day,
                                 day |-> after.enriched[Len(after.enriched)].suggested_day.day,
                                 time |-> after.enriched[Len(after.enriched)].suggested_time.str,
                                 duration |-> inv[i].current.duration,
                                 before |-> before],
                    ![i].current.placed = @ + 1,
                    ![i].status = IF inv[i].current.placed + 1
                                     = Len(inv[i].current.target_days)
                                  THEN "loop" ELSE "placing"]
    /\ UNCHANGED <<specialty_config, outside_scheduler>>

\* return enriched
ReturnEnriched ==
    /\ \E i \in DOMAIN inv :
          /\ inv[i].status = "loop"
          /\ inv' = [inv EXCEPT ![i].status = "returned"]
    /\ UNCHANGED <<specialty_config, outside_scheduler>>

\* one invocation, with any input list of up to MaxScheduledTasks tasks
SchedulerInit ==
    /\ \E args \in SchedulerArgs :
          inv = [i \in {1} |-> NewInvocation(args, SchedulerTasks, MaxScheduledTasks)]
    /\ specialty_config = SPECIALTY_CONFIG
    /\ LadderIdle
    /\ ServicesIdle

SchedulerNext == TakeTask \/ Place \/ ReturnEnriched

SchedulerSpec == SchedulerInit /\ [][SchedulerNext]_vars

\* the tasks of the concurrent invocations
ConcurrentTasks == {HeavyDailyTask, LongOnceTask}

\* two invocations under way at once, for the same or for different
\* arguments; their steps interleave in any order
ConcurrentInit ==
    /\ \E first \in SchedulerArgs, second \in SchedulerArgs :
          inv = [i \in {1, 2} |->
                    NewInvocation(IF i = 1 THEN first ELSE second, ConcurrentTasks,
                                  MaxConcurrentTasks)]
    /\ specialty_config = SPECIALTY_CONFIG
    /\ LadderIdle
    /\ ServicesIdle

ConcurrentSpec == ConcurrentInit /\ [][SchedulerNext]_vars

-----------------------------------------------------------------------------
(* Effort bands                                                          *)

EffortBands == {"low", "medium", "high", "intense"}

\* minutes_per_day and tasks_per_day are (lower, upper) pairs
EFFORT_BAND_BUDGETS ==
    [band \in EffortBands |->
        CASE band = "low" ->
                 [minutes_per_day |-> <<15, 30>>, tasks_per_day |-> <<1, 1>>,
                  weekly_minutes |-> 180]
          [] band = "medium" ->
                 [minutes_per_day |-> <<30, 60>>, tasks_per_day |-> <<1, 2>>,
                  weekly_minutes |-> 360]
          [] band = "high" ->
                 [minutes_per_day |-> <<60, 120>>, tasks_per_day |-> <<2, 4>>,
                  weekly_minutes |-> 720]
          [] band = "intense" ->
                 [minutes_per_day |-> <<120, 240>>, tasks_per_day |-> <<3, 6>>,
                  weekly_minutes |-> 1440]]

-----------------------------------------------------------------------------
(* Properties of the scheduler                                           *)

\* "HH:MM"
IsClockTime(value) ==
    /\ value.t = "str"
    /\ Len(value.str) = 5
    /\ CharAt(value.str, 3) = ":"
    /\ StrIsDigit(SubSeq(value.str, 1, 2)) /\ StrIsDigit(SubSeq(value.str, 4, 5))

\* the number of tasks of at least 15 minutes the ledger holds for the day
HeavyOn(daily_load, day) ==
    Len(SelectSeq(LoadOn(daily_load, day), LAMBDA d : d >= 15))

\* the days the scan from target_day looks at
Lookahead(target_day) == target_day..(target_day + 20)

\* C11: no invocation of the scheduler ends with an exception; between two
\* tasks and at the return the enriched list holds one occurrence per target
\* day of every input task (at least one per task), and every occurrence
\* carries a calendar day and a clock time.
C11_SchedulingNeverFailsNorDrops ==
    \A i \in DOMAIN inv :
        /\ inv[i].status # "raised"
        /\ inv[i].status \in {"loop", "returned"} =>
              /\ Len(inv[i].acc.enriched) = inv[i].expected
              /\ inv[i].expected >= Len(inv[i].tasks)
        /\ \A k \in 1..Len(inv[i].acc.enriched) :
              /\ inv[i].acc.enriched[k].suggested_day.t = "isodate"
              /\ IsClockTime(inv[i].acc.enriched[k].suggested_time)

\* C12: for every effort band, a heavy task (15 minutes or more) is not
\* placed on a day that then holds more heavy tasks than the upper
\* tasks_per_day limit of the band, as long as some day of the 21-day
\* lookahead from its target day holds fewer heavy tasks than that limit.
C12_HeavyTasksWithinBandLimit ==
    \A i \in DOMAIN inv : \A band \in EffortBands :
        (/\ inv[i].last # NoPlacement
         /\ inv[i].last.duration >= 15
         /\ \E d \in Lookahead(inv[i].last.target_day) :
                HeavyOn(inv[i].last.before.daily_load, d)
                    < EFFORT_BAND_BUDGETS[band].tasks_per_day[2]) =>
            HeavyOn(inv[i].last.before.daily_load, inv[i].last.day) + 1
                <= EFFORT_BAND_BUDGETS[band].tasks_per_day[2]

MaxCadenceCount == 9

MaxWeekStart == 7

\* the target days of an x_per_week cadence with the count given are
\* min(max(count, 1), 7) distinct days of the week that starts at week_start,
\* and for count 3 they are the offsets 0, 2 or 3, and 5
IsXPerWeekExpansion(days, count, week_start) ==
    /\ Len(days) = Min(Max(count, 1), 7)
    /\ \A a, b \in 1..Len(days) : a # b => days[a] # days[b]
    /\ \A a \in 1..Len(days) : days[a] \in week_start..(week_start + 6)
    /\ count = 3 => /\ days[1] = week_start
                    /\ days[2] \in {week_start + 2, week_start + 3}
                    /\ days[3] = week_start + 5

\* C13: for every week_start and every count, _expand_target_days of an
\* x_per_week cadence with that count returns min(max(count, 1), 7) pairwise
\* distinct days within the 7 days from week_start, for count 3 the offsets
\* 0, 2 or 3, and 5; the target days of every such task the scheduler takes
\* are of that form.
C13_XPerWeekExpansion ==
    \A i \in DOMAIN inv :
        /\ inv[i].tasks = <<>> =>
              \A count \in (-1)..MaxCadenceCount : \A week_start \in 0..MaxWeekStart :
                  LET struct == _build_cadence_struct(
                                    CadenceDict(PyStr("x_per_week"), PyInt(count),
                                                PyNone, PyNone))
                      days == _expand_target_days(struct.v, week_start,
                                                  inv[i].args.repeat_daily,
                                                  inv[i].args.today_weekday)
                  IN  /\ ~struct.err
                      /\ ~days.err
                      /\ IsXPerWeekExpansion(days.v, count, week_start)
        /\ (/\ inv[i].status = "placing"
            /\ inv[i].current.cadence_struct.type = PyStr("x_per_week")
            /\ inv[i].current.cadence_struct.count.t = "int") =>
              IsXPerWeekExpansion(inv[i].current.target_days,
                                  inv[i].current.cadence_struct.count.int, 0)

\* the scheduler has taken a task with an x_per_week count of 3 and is about
\* to place it on the days 0, 2 and 5
C13_Witness ==
    \E i \in DOMAIN inv :
        /\ inv[i].status = "placing"
        /\ inv[i].current.cadence_struct.count = PyInt(3)
        /\ inv[i].current.target_days = <<0, 2, 5>>
        /\ inv[i].current.placed = 0

-----------------------------------------------------------------------------
(* infer_effort_band                                                     *)

LOW_KEYWORDS == {"casual", "light", "no pressure"}

INTENSE_KEYWORDS == {"intense", "crash course", "bootcamp"}

SKILL_PUSH_KEYWORDS == {"master", "advanced", "exam", "certification", "daily practice", "serious"}

\* any(keyword in text for keyword in keywords)
AnyKeywordIn(text, keywords) == \E keyword \in keywords : StrContains(text, keyword)

\* resolution_type in names: None is in no set of names
TypeIn(resolution_type, names) == resolution_type.t = "str" /\ resolution_type.str \in names

\* duration_weeks, with 8 only for None
DurationUnlessNone(duration_weeks) ==
    IF duration_weeks.t = "none" THEN 8 ELSE duration_weeks.int

\* duration_weeks or 8: None and 0 are falsy
DurationOrDefault(duration_weeks) ==
    IF duration_weeks.t = "none" \/ duration_weeks.int = 0 THEN 8 ELSE duration_weeks.int

\* variant: the skill keywords of the text are not looked at
BaseBandWithoutPush(text, resolution_type, duration) ==
    IF TypeIn(resolution_type, {"project", "work"}) /\ duration <= 6
    THEN <<"high", "Short project/work goal defaulted to high effort.">>
    ELSE <<"medium", "Defaulted to medium effort.">>

\* the band and rationale of the goal type
BaseBand(text, resolution_type, duration) ==
    IF TypeIn(resolution_type, {"habit", "health"})
    THEN <<"medium", "Habits/health default to medium effort.">>
    ELSE IF TypeIn(resolution_type, {"skill", "learning"})
    THEN IF AnyKeywordIn(text, SKILL_PUSH_KEYWORDS)
         THEN <<"high", "Skill goal indicates advanced intensity.">>
         ELSE <<"medium", "Skill/learning defaults to medium effort.">>
    ELSE IF TypeIn(resolution_type, {"project", "work"})
    THEN IF duration <= 6
         THEN <<"high", "Short project/work goal defaulted to high effort.">>
         ELSE <<"medium", "Longer project/work plan kept at medium effort.">>
    ELSE <<"medium", "No specific type, defaulting to medium effort.">>

\* the intense wording of the text, if any, decides over the base band
IntenseOr(text, duration, base) ==
    IF AnyKeywordIn(text, INTENSE_KEYWORDS)
    THEN IF duration <= 4
         THEN <<"intense", "Explicit intense wording with short duration.">>
         ELSE <<"high", "Explicit intense wording but duration suggests high effort.">>
    ELSE base

\* the casual wording looked at after the intense wording
IntenseBeforeLow(user_input, resolution_type, duration_weeks) ==
    Bind(StrLower(IF user_input.t = "none" THEN "" ELSE user_input.str), LAMBDA text :
    Bind(DurationOrDefault(duration_weeks), LAMBDA duration :
        IF AnyKeywordIn(text, INTENSE_KEYWORDS)
        THEN IntenseOr(text, duration, BaseBand(text, resolution_type, duration))
        ELSE IF AnyKeywordIn(text, LOW_KEYWORDS)
        THEN <<"low", "Goal explicitly requests a casual/light approach.">>
        ELSE BaseBand(text, resolution_type, duration)))

\* returns the tuple (band, rationale)
infer_effort_band(user_input, resolution_type, duration_weeks) ==
    Bind(StrLower(IF user_input.t = "none" THEN "" ELSE user_input.str), LAMBDA text :
    Bind(DurationOrDefault(duration_weeks), LAMBDA duration :
        IF AnyKeywordIn(text, LOW_KEYWORDS)
        THEN <<"low", "Goal explicitly requests a casual/light approach.">>
        ELSE IntenseOr(text, duration, BaseBand(text, resolution_type, duration))))

\* the phrases goal texts are made of: every keyword and two neutral ones
GoalPhrases ==
    LOW_KEYWORDS \cup INTENSE_KEYWORDS \cup {"master", "exam", "", "run a mile"}

\* goal texts of two phrases, in lower case and capitalized
GoalTexts ==
    {PyNone}
    \cup {PyStr(a \o " " \o b) : a, b \in GoalPhrases}
    \cup {PyStr(StrCapitalize(a) \o ", " \o StrCapitalize(b)) : a, b \in GoalPhrases}

ResolutionTypes ==
    {PyNone} \cup {PyStr(name) : name \in {"habit", "health", "skill", "learning",
                                           "project", "work", "Skill", "other"}}

MaxDurationWeeks == 9

DurationWeeksInputs == {PyNone} \cup {PyInt(n) : n \in 0..MaxDurationWeeks}

EffortBandCalls ==
    {[fn |-> "infer_effort_band", args |-> <<user_input, resolution_type, duration_weeks>>,
      done |-> FALSE, returned |-> PyNone] :
        user_input \in GoalTexts, resolution_type \in ResolutionTypes,
        duration_weeks \in DurationWeeksInputs}

outside_services == <<ladder_vars, scheduler_vars, db>>

InferEffortBand ==
    /\ service_call.fn = "infer_effort_band"
    /\ ~service_call.done
    /\ \E returned \in {infer_effort_band(service_call.args[1], service_call.args[2], service_call.args[3])} :
          service_call' = [service_call EXCEPT !.done = TRUE, !.returned = returned]
    /\ UNCHANGED outside_services

\* one call, with any of the goal texts, goal types and durations
EffortBandInit ==
    /\ service_call \in EffortBandCalls
    /\ LadderIdle
    /\ SchedulerIdle
    /\ DatabaseIdle

EffortBandNext == InferEffortBand

EffortBandSpec == EffortBandInit /\ [][EffortBandNext]_vars

-----------------------------------------------------------------------------
(* Properties of infer_effort_band                                       *)

\* the goal text of the call, in lower case
GoalTextLower == StrLower(IF service_call.args[1].t = "none" THEN "" ELSE service_call.args[1].str)

MentionsCasual == \E keyword \in {"casual", "light", "no pressure"} : StrContains(GoalTextLower, keyword)

MentionsIntense == \E keyword \in {"intense", "crash course", "bootcamp"} : StrContains(GoalTextLower, keyword)

BandReturned == service_call.fn = "infer_effort_band" /\ service_call.done

\* C14: whenever the goal text contains casual, light or no pressure,
\* infer_effort_band returns the band low, whatever the goal type, the
\* duration and the other keywords of the text.
C14_CasualKeywordGivesLow ==
    (BandReturned /\ MentionsCasual) => service_call.returned[1] = "low"

\* a text with a casual and an intense keyword, a project of 4 weeks: low
C14_Witness ==
    /\ BandReturned
    /\ MentionsCasual /\ MentionsIntense
    /\ service_call.args[2] = PyStr("project")
    /\ service_call.args[3] = PyInt(4)
    /\ service_call.returned[1] = "low"

\* C15 as stated: whenever the goal text contains intense, crash course or
\* bootcamp, infer_effort_band returns intense for duration_weeks <= 4 and
\* high for duration_weeks > 4, whatever the goal type.
C15_IntenseKeywordByDuration ==
    (BandReturned /\ MentionsIntense /\ service_call.args[3].t = "int") =>
        service_call.returned[1] = (IF service_call.args[3].int <= 4 THEN "intense" ELSE "high")

\* C15: whenever the goal text contains an intense keyword and no casual
\* keyword, infer_effort_band returns intense for a duration_weeks from 1
\* to 4, and high for a duration_weeks above 4 and for a duration_weeks of
\* None or 0, which count as 8, whatever the goal type.
C15_IntenseKeywordWithoutCasual ==
    (BandReturned /\ MentionsIntense /\ ~MentionsCasual) =>
        service_call.returned[1] =
            (IF service_call.args[3].t = "int" /\ service_call.args[3].int \in 1..4 THEN "intense" ELSE "high")

\* an intense text without a casual keyword and a duration_weeks of 0: high
C15_Witness ==
    /\ BandReturned
    /\ MentionsIntense /\ ~MentionsCasual
    /\ service_call.args[3] = PyInt(0)
    /\ service_call.returned[1] = "high"

-----------------------------------------------------------------------------
(* Availability profiles                                                 *)

\* the entry of a dict literal for a key the dict does not hold
Missing == [t |-> "missing"]

\* d.get(key)
DictGet(d, key) == IF d.dict[key] = Missing THEN PyNone ELSE d.dict[key]

\* d.get(key, "")
DictGetOrEmpty(d, key) == IF d.dict[key] = Missing THEN PyStr("") ELSE d.dict[key]

DEFAULT_PERSONAL_SLOTS ==
    PyDict([fitness |-> PyStr("morning"), learning |-> PyStr("evening"),
            admin |-> PyStr("weekend")])

DEFAULT_AVAILABILITY_PROFILE ==
    PyDict([work_days |-> PyList(<<PyStr("Mon"), PyStr("Tue"), PyStr("Wed"),
                                   PyStr("Thu"), PyStr("Fri")>>),
            work_start |-> PyStr("09:00"),
            work_end |-> PyStr("18:00"),
            peak_energy |-> PyStr("morning"),
            work_mode_enabled |-> PyBool(FALSE),
            personal_slots |-> DEFAULT_PERSONAL_SLOTS])

_DAY_NORMALIZATION ==
    "mon" :> "Mon" @@ "monday" :> "Mon"
    @@ "tue" :> "Tue" @@ "tues" :> "Tue" @@ "tuesday" :> "Tue"
    @@ "wed" :> "Wed" @@ "weds" :> "Wed" @@ "wednesday" :> "Wed"
    @@ "thu" :> "Thu" @@ "thur" :> "Thu" @@ "thurs" :> "Thu" @@ "thursday" :> "Thu"
    @@ "fri" :> "Fri" @@ "friday" :> "Fri"
    @@ "sat" :> "Sat" @@ "saturday" :> "Sat"
    @@ "sun" :> "Sun" @@ "sunday" :> "Sun"

\* the items a for loop over value visits: the elements of a list, the
\* characters of a str; an int or a bool is not iterable
IterItems(value) ==
    CASE value.t = "list" -> Return(value.list)
      [] value.t = "str"  -> Return([i \in 1..Len(value.str) |-> PyStr(CharAt(value.str, i))])
      [] value.t \in {"int", "bool"} -> Raise("TypeError")

RECURSIVE NormalizeEntries(_, _)
\* the loop of _normalize_work_days over the entries left, with the codes
\* collected so far
NormalizeEntries(entries, normalized) ==
    IF entries = <<>> THEN normalized
    ELSE Bind(Head(entries), LAMBDA entry :
         IF entry.t # "str" THEN NormalizeEntries(Tail(entries), normalized)
         ELSE Bind(StrLower(StrStrip(entry.str)), LAMBDA key :
              IF key \in DOMAIN _DAY_NORMALIZATION
                 /\ \A i \in 1..Len(normalized) : normalized[i] # PyStr(_DAY_NORMALIZATION[key])
              THEN NormalizeEntries(Tail(entries),
                                    Append(normalized, PyStr(_DAY_NORMALIZATION[key])))
              ELSE NormalizeEntries(Tail(entries), normalized)))

_normalize_work_days(days) ==
    IF ~Truthy(days) THEN Return(DEFAULT_AVAILABILITY_PROFILE.dict.work_days)
    ELSE Bind(IterItems(days), LAMBDA items :
         IF items.err THEN items
         ELSE Bind(NormalizeEntries(items.v, <<>>), LAMBDA normalized :
                  IF normalized = <<>> THEN Return(DEFAULT_AVAILABILITY_PROFILE.dict.work_days)
                  ELSE Return(PyList(normalized))))

\* "HH:MM" with the hour clamped to 0..23 and the minute to 0..59, None for
\* anything that is not two numbers around one colon
_normalize_time_string(value) ==
    IF value.t # "str" THEN PyNone
    ELSE Bind(StrSplitOn(StrStrip(value.str), ":"), LAMBDA parts :
         IF Len(parts) # 2 THEN PyNone
         ELSE Bind(<<ParseInt(parts[1]), ParseInt(parts[2])>>, LAMBDA parsed :
              IF parsed[1].err \/ parsed[2].err THEN PyNone
              ELSE PyStr(Pad2(Max(0, Min(23, parsed[1].v))) \o ":"
                         \o Pad2(Max(0, Min(59, parsed[2].v))))))

\* _time_str_to_minutes of availability_profile.py: an exception while
\* parsing gives 0
_availability_time_str_to_minutes(value) ==
    Bind(StrSplitOn(value, ":"), LAMBDA parts :
        IF Len(parts) # 2 THEN 0
        ELSE Bind(<<ParseInt(parts[1]), ParseInt(parts[2])>>, LAMBDA parsed :
                 IF parsed[1].err \/ parsed[2].err THEN 0
                 ELSE (parsed[1].v * 60) + parsed[2].v))

\* the label of the slot if it is one of the labels allowed, else the default
SlotLabel(raw, key, allowed) ==
    Bind(StrLower(PyToStr(DictGetOrEmpty(raw, key))), LAMBDA label :
        IF label \in allowed THEN PyStr(label) ELSE DEFAULT_PERSONAL_SLOTS.dict[key])

_normalize_personal_slots(raw) ==
    IF raw.t # "dict" THEN DEFAULT_PERSONAL_SLOTS
    ELSE PyDict([fitness |-> SlotLabel(raw, "fitness", {"morning", "afternoon", "evening"}),
                 learning |-> SlotLabel(raw, "learning", {"morning", "afternoon", "evening"}),
                 admin |-> SlotLabel(raw, "admin", {"weekend", "evenings"})])

\* the work window: the normalized times, the default for each one that is
\* missing; both defaults when the start does not precede the end
WorkWindow(raw) ==
    Bind(<<_normalize_time_string(DictGet(raw, "work_start")),
           _normalize_time_string(DictGet(raw, "work_end"))>>, LAMBDA given :
    Bind(<<IF Truthy(given[1]) THEN given[1] ELSE DEFAULT_AVAILABILITY_PROFILE.dict.work_start,
           IF Truthy(given[2]) THEN given[2] ELSE DEFAULT_AVAILABILITY_PROFILE.dict.work_end>>,
         LAMBDA window :
        IF _availability_time_str_to_minutes(window[1].str)
               >= _availability_time_str_to_minutes(window[2].str)
        THEN <<DEFAULT_AVAILABILITY_PROFILE.dict.work_start,
               DEFAULT_AVAILABILITY_PROFILE.dict.work_end>>
        ELSE window))

PeakEnergy(raw) ==
    Bind(StrLower(StrStrip(PyToStr(DictGetOrEmpty(raw, "peak_energy")))), LAMBDA peak :
        IF peak \in {"morning", "evening"} THEN PyStr(peak)
        ELSE DEFAULT_AVAILABILITY_PROFILE.dict.peak_energy)

WorkModeEnabled(raw) ==
    IF DictGet(raw, "work_mode_enabled").t = "bool" THEN raw.dict.work_mode_enabled
    ELSE DEFAULT_AVAILABILITY_PROFILE.dict.work_mode_enabled

\* Return(profile), or the exception _normalize_work_days raises
sanitize_availability_profile(raw) ==
    IF raw.t # "dict" THEN Return(DEFAULT_AVAILABILITY_PROFILE)
    ELSE Bind(_normalize_work_days(DictGet(raw, "work_days")), LAMBDA work_days :
         IF work_days.err THEN work_days
         ELSE Bind(WorkWindow(raw), LAMBDA window :
              Return(PyDict([work_days |-> work_days.v,
                             work_start |-> window[1],
                             work_end |-> window[2],
                             peak_energy |-> PeakEnergy(raw),
                             work_mode_enabled |-> WorkModeEnabled(raw),
                             personal_slots |->
                                 _normalize_personal_slots(DictGet(raw, "personal_slots"))]))))

\* raw profiles: the value of each field is missing, well-formed, in need of
\* normalization, or of the wrong type
RawWorkDays ==
    {Missing, PyNone, PyList(<<>>),
     PyList(<<PyStr("monday"), PyStr(" TUE "), PyStr("Mon")>>),
     PyList(<<PyInt(1), PyStr("sat"), PyStr("someday")>>),
     PyList(<<PyStr("someday")>>),
     PyStr("Mon"), PyInt(5), PyInt(0), PyBool(TRUE)}

RawWorkStarts ==
    {Missing, PyStr("08:30"), PyStr("19:00"), PyStr(" 7:5 "), PyStr("25:61"),
     PyStr("nine"), PyInt(9)}

RawWorkEnds == {Missing, PyStr("17:00"), PyStr("08:30"), PyStr("9"), PyStr("-1:00")}

RawPeakEnergies == {Missing, PyNone, PyStr(" Evening "), PyStr("morning"), PyStr("noon"), PyInt(1)}

RawWorkModes == {Missing, PyBool(TRUE), PyStr("yes"), PyInt(1)}

RawPersonalSlots ==
    {Missing, PyStr("evening"),
     PyDict([fitness |-> PyStr("Evening"), learning |-> Missing, admin |-> PyStr("evenings")]),
     PyDict([fitness |-> PyStr("night"), learning |-> PyStr("MORNING"), admin |-> PyInt(3)])}

RawProfiles ==
    {PyNone, PyStr("Mon-Fri"), PyList(<<>>), PyInt(0)}
    \cup {PyDict([work_days |-> work_days, work_start |-> work_start, work_end |-> work_end,
                  peak_energy |-> peak_energy, work_mode_enabled |-> work_mode_enabled,
                  personal_slots |-> personal_slots]) :
            work_days \in RawWorkDays, work_start \in RawWorkStarts, work_end \in RawWorkEnds,
            peak_energy \in RawPeakEnergies, work_mode_enabled \in RawWorkModes,
            personal_slots \in RawPersonalSlots}

\* the dict literal {}
EmptyDict ==
    PyDict([work_days |-> Missing, work_start |-> Missing, work_end |-> Missing,
            peak_energy |-> Missing, work_mode_enabled |-> Missing,
            personal_slots |-> Missing])

MaxSanitizeRounds == 2

\* the call returns or raises
SanitizeAvailabilityProfile ==
    /\ service_call.fn = "sanitize_availability_profile"
    /\ ~service_call.done
    /\ \E returned \in {sanitize_availability_profile(service_call.args[1])} :
          service_call' = [service_call EXCEPT !.done = TRUE, !.returned = returned]
    /\ UNCHANGED outside_services

\* the caller passes the profile it received to the function once more
SanitizeReturnedProfile ==
    /\ service_call.fn = "sanitize_availability_profile"
    /\ service_call.done
    /\ ~service_call.returned.err
    /\ service_call.round < MaxSanitizeRounds
    /\ service_call' = [service_call EXCEPT !.args = <<service_call.returned.v>>,
                                            !.done = FALSE,
                                            !.returned = PyNone,
                                            !.round = service_call.round + 1]
    /\ UNCHANGED outside_services

\* one call, with any of the raw profiles
ProfileInit ==
    /\ \E raw \in RawProfiles :
          service_call = [fn |-> "sanitize_availability_profile", args |-> <<raw>>,
                          done |-> FALSE, returned |-> PyNone, round |-> 1]
    /\ LadderIdle
    /\ SchedulerIdle
    /\ DatabaseIdle

ProfileNext == SanitizeAvailabilityProfile \/ SanitizeReturnedProfile

ProfileSpec == ProfileInit /\ [][ProfileNext]_vars

-----------------------------------------------------------------------------
(* Properties of sanitize_availability_profile                           *)

ProfileReturned == service_call.fn = "sanitize_availability_profile" /\ service_call.done

\* C16: a call with None or {} returns the default profile, and every call
\* returns a profile that sanitize_availability_profile returns unchanged:
\* no call ends with an exception, and a call whose argument is the profile
\* a call returned returns its argument.
C16_DefaultsAndIdempotence ==
    ProfileReturned =>
        /\ ~service_call.returned.err
        /\ service_call.args[1] \in {PyNone, EmptyDict} =>
              service_call.returned.v = DEFAULT_AVAILABILITY_PROFILE
        /\ sanitize_availability_profile(service_call.returned.v) = service_call.returned
        /\ service_call.round > 1 => service_call.returned.v = service_call.args[1]

CanonicalDayCodes == {"Mon", "Tue", "Wed", "Thu", "Fri", "Sat", "Sun"}

\* the dict is fully populated: a non-empty duplicate-free list of canonical
\* day codes, a work window whose start precedes its end, a peak energy of
\* morning or evening, a bool, and the three personal slots
IsFullProfile(profile) ==
    /\ profile.t = "dict"
    /\ profile.dict.work_days.t = "list"
    /\ LET days == profile.dict.work_days.list
       IN  /\ days # <<>>
           /\ \A i \in 1..Len(days) : days[i].t = "str" /\ days[i].str \in CanonicalDayCodes
           /\ \A i, j \in 1..Len(days) : i # j => days[i] # days[j]
    /\ IsClockTime(profile.dict.work_start)
    /\ IsClockTime(profile.dict.work_end)
    /\ _availability_time_str_to_minutes(profile.dict.work_start.str)
           < _availability_time_str_to_minutes(profile.dict.work_end.str)
    /\ profile.dict.peak_energy \in {PyStr("morning"), PyStr("evening")}
    /\ profile.dict.work_mode_enabled.t = "bool"
    /\ profile.dict.personal_slots.t = "dict"
    /\ \A key \in {"fitness", "learning", "admin"} :
           profile.dict.personal_slots.dict[key].t = "str"

\* the work window the raw profile gives, with the default for a time it
\* does not give, violates the order
WindowOutOfOrder(raw) ==
    /\ raw.t = "dict"
    /\ LET work_start == _normalize_time_string(DictGet(raw, "work_start"))
           work_end == _normalize_time_string(DictGet(raw, "work_end"))
       IN  _availability_time_str_to_minutes(
               IF work_start.t = "str" THEN work_start.str ELSE "09:00")
           >= _availability_time_str_to_minutes(
                  IF work_end.t = "str" THEN work_end.str ELSE "18:00")

\* C17: no call ends with an exception, whatever the types of the fields of
\* the raw profile (a work_days that is no sequence included); the profile
\* returned is fully populated, with work_start before work_end, and holds
\* the default window 09:00-18:00 when the raw window violates the order.
C17_SanitizeIsTotal ==
    ProfileReturned =>
        /\ ~service_call.returned.err
        /\ IsFullProfile(service_call.returned.v)
        /\ WindowOutOfOrder(service_call.args[1]) =>
              /\ service_call.returned.v.dict.work_start = PyStr("09:00")
              /\ service_call.returned.v.dict.work_end = PyStr("18:00")

-----------------------------------------------------------------------------
(* evaluate_plan, from section 4.4 of the specification, over the tasks  *)
(* of one day of the first week                                          *)

RECURSIVE SumSeq(_)
\* sum(numbers)
SumSeq(numbers) == IF numbers = <<>> THEN 0 ELSE Head(numbers) + SumSeq(Tail(numbers))

\* the sum of Measure(item) over the items
SumOf(items, Measure(_)) == SumSeq([i \in 1..Len(items) |-> Measure(items[i])])

VagueVerbs == {"practice", "study", "work", "try"}

\* a title is vague when it is empty or has fewer than three words; the flag
\* is hard when the title is empty or starts with a vague verb
VaguenessFlags(tasks) ==
    Bind(SelectSeq(tasks, LAMBDA task : Len(StrSplitWs(task.title)) < 3), LAMBDA vague :
        [i \in 1..Len(vague) |->
            [title |-> vague[i].title,
             hard |-> \/ StrSplitWs(vague[i].title) = <<>>
                      \/ StrLower(StrSplitWs(vague[i].title)[1]) \in VagueVerbs]])

\* the minutes of the day and of the week that exceed the budget of the band
BudgetViolations(tasks, effort_band) ==
    Bind(<<SumOf(tasks, LAMBDA task : task.estimated_duration_min),
           SumOf(tasks, LAMBDA task : task.estimated_duration_min
                                          * (IF task.cadence = "daily" THEN 7 ELSE 1))>>,
         LAMBDA total :
        (IF total[1] > EFFORT_BAND_BUDGETS[effort_band].minutes_per_day[2]
         THEN <<[scope |-> "day", minutes |-> total[1],
                 limit |-> EFFORT_BAND_BUDGETS[effort_band].minutes_per_day[2]]>>
         ELSE <<>>)
        \o (IF total[2] > EFFORT_BAND_BUDGETS[effort_band].weekly_minutes
            THEN <<[scope |-> "week", minutes |-> total[2],
                    limit |-> EFFORT_BAND_BUDGETS[effort_band].weekly_minutes]>>
            ELSE <<>>))

\* more than 15% above the limit
IsSevere(violation) == violation.minutes * 100 > violation.limit * 115

\* goal types that need repetition must have a task of daily cadence
CadenceIssues(tasks, goal_type) ==
    IF goal_type \in {"habit", "health", "skill", "learning"}
       /\ \A i \in 1..Len(tasks) : tasks[i].cadence # "daily"
    THEN <<"no task repeats through the week">>
    ELSE <<>>

\* more tasks on the day than the upper tasks_per_day of the band
OverloadWarnings(tasks, effort_band) ==
    IF Len(tasks) > EFFORT_BAND_BUDGETS[effort_band].tasks_per_day[2]
    THEN <<"too many tasks on one day">>
    ELSE <<>>

\* 100 less the weighted penalties, never below 0
Score(budget_violations, vagueness_flags, cadence_issues, overload_warnings) ==
    Max(0, 100 - SumOf(budget_violations, LAMBDA v : IF IsSevere(v) THEN 40 ELSE 10)
               - SumOf(vagueness_flags, LAMBDA f : IF f.hard THEN 25 ELSE 10)
               - (15 * Len(cadence_issues))
               - (5 * Len(overload_warnings)))

\* the score alone decides
PassedByScoreOnly(score, budget_violations, vagueness_flags) == score >= 60

Passed(score, budget_violations, vagueness_flags) ==
    /\ score >= 60
    /\ \A i \in 1..Len(vagueness_flags) : ~vagueness_flags[i].hard
    /\ \A i \in 1..Len(budget_violations) : ~IsSevere(budget_violations[i])

evaluate_plan(tasks, effort_band, goal_type) ==
    Bind(BudgetViolations(tasks, effort_band), LAMBDA budget_violations :
    Bind(VaguenessFlags(tasks), LAMBDA vagueness_flags :
    Bind(Score(budget_violations, vagueness_flags, CadenceIssues(tasks, goal_type),
               OverloadWarnings(tasks, effort_band)), LAMBDA score :
    Bind(Passed(score, budget_violations, vagueness_flags), LAMBDA passed :
        [score |-> score,
         passed |-> passed,
         budget_violations |-> budget_violations,
         vagueness_flags |-> vagueness_flags,
         cadence_issues |-> CadenceIssues(tasks, goal_type),
         overload_warnings |-> OverloadWarnings(tasks, effort_band),
         repair_instructions |-> IF passed THEN PyNone
                                 ELSE PyStr("digest of the violations")]))))

\* _build_task of the evaluator's tests
BuildTask(title, duration, cadence_type) ==
    [title |-> title, estimated_duration_min |-> duration, cadence |-> cadence_type]

SessionTask == BuildTask("Session 1", 90, "daily")

EvaluatedTasks ==
    {BuildTask("Practice major scales hands separately for tone control", 30, "flex"),
     BuildTask("Review arpeggios slowly focusing on posture", 35, "flex"),
     SessionTask,
     BuildTask("Practice piano", 20, "flex")}

MaxDayTasks == 5

\* the task lists of one day, of up to MaxDayTasks tasks
DayPlans == UNION {[1..n -> EvaluatedTasks] : n \in 0..MaxDayTasks}

EvaluatePlan ==
    /\ service_call.fn = "evaluate_plan"
    /\ ~service_call.done
    /\ \E returned \in {evaluate_plan(service_call.args[1], service_call.args[2],
                                      service_call.args[3])} :
          service_call' = [service_call EXCEPT !.done = TRUE, !.returned = returned]
    /\ UNCHANGED outside_services

\* one call, with any day plan, any effort band and a goal type
EvaluatorInit ==
    /\ \E tasks \in DayPlans, effort_band \in EffortBands, goal_type \in {"project", "skill"} :
          service_call = [fn |-> "evaluate_plan", args |-> <<tasks, effort_band, goal_type>>,
                          done |-> FALSE, returned |-> PyNone]
    /\ LadderIdle
    /\ SchedulerIdle
    /\ DatabaseIdle

EvaluatorNext == EvaluatePlan

EvaluatorSpec == EvaluatorInit /\ [][EvaluatorNext]_vars

-----------------------------------------------------------------------------
(* Properties of evaluate_plan                                           *)

PlanEvaluated == service_call.fn = "evaluate_plan" /\ service_call.done

\* the result holds a budget violation of more than 15% above its limit
HasSevereViolation(verdict) ==
    \E i \in 1..Len(verdict.budget_violations) :
        verdict.budget_violations[i].minutes * 100 > verdict.budget_violations[i].limit * 115

HasHardFlag(verdict) == \E i \in 1..Len(verdict.vagueness_flags) : verdict.vagueness_flags[i].hard

-----------------------------------------------------------------------------
(* The weekly rolling-wave planner: _request_plan_from_llm               *)

SuggestedTaskPayload(title, duration_min, suggested_time) ==
    [title |-> title, duration_min |-> duration_min, suggested_time |-> suggested_time]

MicroResolutionPayload(title, why_this, suggested_week_1_tasks) ==
    [title |-> title, why_this |-> why_this, suggested_week_1_tasks |-> suggested_week_1_tasks]

\* validation of one task: title is a str, duration_min an int or None,
\* suggested_time morning, afternoon, evening or None
IsSuggestedTask(task) ==
    /\ task.t = "dict"
    /\ task.dict.title.t = "str"
    /\ task.dict.duration_min.t \in {"int", "missing", "none"}
    /\ \/ task.dict.suggested_time.t \in {"missing", "none"}
       \/ /\ task.dict.suggested_time.t = "str"
          /\ task.dict.suggested_time.str \in {"morning", "afternoon", "evening"}

\* MicroResolutionPayload.model_validate(payload): the three fields are
\* required, title and why_this are str, the tasks a list of valid tasks
model_validate(payload) ==
    IF /\ payload.t = "dict"
       /\ payload.dict.title.t = "str"
       /\ payload.dict.why_this.t = "str"
       /\ payload.dict.suggested_week_1_tasks.t = "list"
       /\ \A i \in 1..Len(payload.dict.suggested_week_1_tasks.list) :
              IsSuggestedTask(payload.dict.suggested_week_1_tasks.list[i])
    THEN Return(MicroResolutionPayload(
                    payload.dict.title.str, payload.dict.why_this.str,
                    [i \in 1..Len(payload.dict.suggested_week_1_tasks.list) |->
                        Bind(payload.dict.suggested_week_1_tasks.list[i].dict, LAMBDA task :
                            SuggestedTaskPayload(
                                task.title.str,
                                IF task.duration_min.t = "int" THEN task.duration_min ELSE PyNone,
                                IF task.suggested_time.t = "str" THEN task.suggested_time
                                ELSE PyNone))]))
    ELSE Raise("ValidationError")

_fallback_micro_resolution ==
    MicroResolutionPayload(
        "Reset Week",
        "Lighten the load, rebuild confidence, and carry momentum into the following week.",
        <<SuggestedTaskPayload("Schedule three 30-min focus blocks", PyInt(30), PyStr("morning")),
          SuggestedTaskPayload("One midweek reflection note", PyInt(10), PyStr("evening")),
          SuggestedTaskPayload("Weekend reset + planning ritual", PyInt(25), PyStr("afternoon"))>>)

RECURSIVE PadTasks(_, _)
\* the while loop of _ensure_task_bounds from the index idx (0-based)
PadTasks(tasks, idx) ==
    IF Len(tasks) < 3 /\ idx < Len(_fallback_micro_resolution.suggested_week_1_tasks)
    THEN PadTasks(Append(tasks, _fallback_micro_resolution.suggested_week_1_tasks[idx + 1]),
                  idx + 1)
    ELSE tasks

\* the padded list is returned whole
PaddedOnly(micro) ==
    MicroResolutionPayload(
        IF micro.title # "" THEN micro.title ELSE "Momentum Week",
        IF micro.why_this # "" THEN micro.why_this
        ELSE "Keep the cadence gentle while sustaining visible progress.",
        PadTasks(micro.suggested_week_1_tasks, 0))

_ensure_task_bounds(micro) ==
    MicroResolutionPayload(
        IF micro.title # "" THEN micro.title ELSE "Momentum Week",
        IF micro.why_this # "" THEN micro.why_this
        ELSE "Keep the cadence gentle while sustaining visible progress.",
        Bind(PadTasks(micro.suggested_week_1_tasks, 0), LAMBDA tasks :
            IF Len(tasks) > 5 THEN SubSeq(tasks, 1, 5) ELSE tasks))

\* the text of a JSON document, by the value it denotes
JsonText(value) == [t |-> "jsontext", value |-> value]

\* json.loads(content)
json_loads(content) ==
    IF content.t = "jsontext" THEN Return(content.value) ELSE Raise("JSONDecodeError")

\* the dict literal {} as a payload
EmptyPayload == PyDict([title |-> Missing, why_this |-> Missing, suggested_week_1_tasks |-> Missing])

\* the body of the try block once the completion has arrived
ParseCompletion(content) ==
    Bind(json_loads(IF content.t = "none" \/ content = PyStr("")
                    THEN JsonText(EmptyPayload) ELSE content), LAMBDA payload :
        IF payload.err THEN payload
        ELSE Bind(model_validate(payload.v), LAMBDA micro :
                 IF micro.err THEN micro ELSE Return(_ensure_task_bounds(micro.v))))

\* except Exception: every exception of the call and of the parsing
CaughtExceptions == {"APIError", "APITimeoutError", "JSONDecodeError", "ValidationError"}

MaxSuggestedTasks == 7

\* a task as the LLM writes it
LLMTask(i) ==
    PyDict([title |-> PyStr("Focus block " \o IntToStr(i)), duration_min |-> PyInt(20 + i),
            suggested_time |-> PyStr("evening")])

\* the lists of suggested tasks an answer can carry
LLMTaskLists ==
    {Missing, PyNone}
    \cup {PyList([i \in 1..n |-> LLMTask(i)]) : n \in 0..MaxSuggestedTasks}
    \cup {PyList(<<LLMTask(1),
                   PyDict([title |-> PyStr("Late walk"), duration_min |-> PyInt(15),
                           suggested_time |-> PyStr("night")])>>),
          PyList(<<PyDict([title |-> Missing, duration_min |-> PyInt(15),
                           suggested_time |-> Missing])>>),
          PyList(<<PyDict([title |-> PyStr("Stretch"), duration_min |-> Missing,
                           suggested_time |-> PyNone])>>)}

\* what the chat completion can do: raise, or answer with no content, with
\* text that is no JSON, or with a JSON document
WeeklyResponses ==
    {[kind |-> "raise", exc |-> exc] : exc \in {"APIError", "APITimeoutError"}}
    \cup {[kind |-> "content", content |-> content] :
            content \in {PyNone, PyStr(""), PyStr("Sorry, I cannot help with that."),
                         JsonText(PyList(<<>>)), JsonText(EmptyPayload)}}
    \cup {[kind |-> "content",
           content |-> JsonText(PyDict([title |-> title, why_this |-> why_this,
                                        suggested_week_1_tasks |-> tasks]))] :
            title \in {Missing, PyStr(""), PyStr("Deep Work Week"), PyInt(3)},
            why_this \in {Missing, PyStr(""), PyStr("You finished 85% last week.")},
            tasks \in LLMTaskLists}

\* not api_key: the fallback plan, without a client
WeeklyNoCredential ==
    /\ service_call.fn = "_request_plan_from_llm"
    /\ service_call.pc = "start"
    /\ ~Truthy(service_call.api_key)
    /\ service_call' = [service_call EXCEPT !.pc = "done",
                                            !.returned = _fallback_micro_resolution]
    /\ UNCHANGED outside_services

\* client.chat.completions.create
WeeklyCompletion ==
    /\ service_call.fn = "_request_plan_from_llm"
    /\ service_call.pc = "start"
    /\ Truthy(service_call.api_key)
    /\ \E response \in WeeklyResponses :
          service_call' = [service_call EXCEPT !.pc = "answered",
                                               !.llm_calls = service_call.llm_calls + 1,
                                               !.response = response]
    /\ UNCHANGED outside_services

\* an exception the except clause does not catch reaches the caller
WeeklyOutcome(outcome) ==
    IF ~outcome.err
    THEN [service_call EXCEPT !.pc = "done", !.returned = outcome.v]
    ELSE IF outcome.exc \in CaughtExceptions
    THEN [service_call EXCEPT !.pc = "done", !.returned = _fallback_micro_resolution]
    ELSE [service_call EXCEPT !.pc = "raised", !.exception = outcome.exc]

\* the rest of the try block, and the except clause
WeeklyParse ==
    /\ service_call.fn = "_request_plan_from_llm"
    /\ service_call.pc = "answered"
    /\ \E outcome \in {IF service_call.response.kind = "raise"
                       THEN Raise(service_call.response.exc)
                       ELSE ParseCompletion(service_call.response.content)} :
          service_call' = WeeklyOutcome(outcome)
    /\ UNCHANGED outside_services

\* one request, with or without the API key in the environment
WeeklyInit ==
    /\ \E api_key \in {PyNone, PyStr(""), PyStr("sk-test")} :
          service_call = [fn |-> "_request_plan_from_llm", pc |-> "start", api_key |-> api_key,
                          llm_calls |-> 0, response |-> Unset, returned |-> Unset,
                          exception |-> ""]
    /\ LadderIdle
    /\ SchedulerIdle
    /\ DatabaseIdle

WeeklyNext == WeeklyNoCredential \/ WeeklyCompletion \/ WeeklyParse

WeeklySpec == WeeklyInit /\ [][WeeklyNext]_vars

-----------------------------------------------------------------------------
(* Properties of the weekly planner                                      *)

\* the answer is a JSON document that meets the schema
ValidAnswer ==
    /\ service_call.response # Unset
    /\ service_call.response.kind = "content"
    /\ service_call.response.content.t = "jsontext"
    /\ ~model_validate(service_call.response.content.value).err

\* the number of suggested tasks of the valid answer
AnsweredTasks == Len(service_call.response.content.value.dict.suggested_week_1_tasks.list)

\* C19: a request issues at most one LLM call and never ends with an
\* exception; it returns the fixed fallback plan of 3 tasks when no API key
\* is set, when the call raises and when the answer does not meet the
\* schema; and whatever the LLM answers, the micro-resolution returned has
\* between 3 and 5 suggested tasks: the first 5 of a valid answer, padded
\* with fallback tasks when it has fewer than 3.
C19_SingleAttemptThenFallback ==
    /\ service_call.llm_calls <= 1
    /\ service_call.pc # "raised"
    /\ service_call.pc = "done" =>
          /\ Len(service_call.returned.suggested_week_1_tasks) \in 3..5
          /\ ~ValidAnswer =>
                /\ service_call.returned = _fallback_micro_resolution
                /\ Len(service_call.returned.suggested_week_1_tasks) = 3
          /\ ValidAnswer =>
                /\ service_call.llm_calls = 1
                /\ Len(service_call.returned.suggested_week_1_tasks)
                       = Min(5, Max(3, AnsweredTasks))
                /\ \A i \in 1..Min(5, AnsweredTasks) :
                       service_call.returned.suggested_week_1_tasks[i].title
                           = service_call.response.content.value.dict
                                 .suggested_week_1_tasks.list[i].dict.title.str

\* a valid answer with more than 5 tasks has been cut to 5
C19_Witness ==
    /\ service_call.pc = "done"
    /\ ValidAnswer
    /\ AnsweredTasks > 5
    /\ Len(service_call.returned.suggested_week_1_tasks) = 5

-----------------------------------------------------------------------------
(* Properties of concurrent invocations                                  *)

\* what _enrich_tasks_with_schedule returns for the tasks invocation i has
\* taken so far when it runs with no other invocation
EnrichedAlone(i) ==
    _enrich_tasks_with_schedule(inv[i].tasks, inv[i].args.resolution_type,
                                inv[i].args.user_context, inv[i].args.repeat_daily,
                                inv[i].args.today_weekday)

\* C20: under every interleaving of two invocations of the scheduler, for
\* the same or for different arguments, each invocation has between two
\* tasks and at its return the list it would have when running alone, and
\* the specialty template table keeps its initial value.
C20_InvocationsAreIndependent ==
    /\ specialty_config = SPECIALTY_CONFIG
    /\ \A i \in DOMAIN inv :
          /\ inv[i].status \in {"loop", "returned"} =>
                /\ ~EnrichedAlone(i).err
                /\ EnrichedAlone(i).v = inv[i].acc.enriched
          /\ inv[i].status = "raised" => EnrichedAlone(i).err

\* both invocations have returned, and the first occurrences of both lie on
\* the same day at the same time
C20_Witness ==
    /\ \A i \in DOMAIN inv : inv[i].status = "returned" /\ inv[i].acc.enriched # <<>>
    /\ Cardinality(DOMAIN inv) = 2
    /\ inv[1].acc.enriched[1].suggested_day = inv[2].acc.enriched[1].suggested_day
    /\ inv[1].acc.enriched[1].suggested_time = inv[2].acc.enriched[1].suggested_time

-----------------------------------------------------------------------------
(* The weekly rolling-wave planner: run_weekly_planning_for_user         *)
(*                                                                       *)
(* In this part a date is the number of days after Monday 2024-01-01,    *)
(* the rows of a table are a sequence in the order of their insertion    *)
(* (which is the order of created_at), and the id of a row is its        *)
(* position in the table.                                                *)

\* date.isoformat()
isoformat(day) == "2024-01-" \o Pad2(day + 1)

\* days_until_monday = (7 - today.weekday()) % 7 or 7
_upcoming_week_window(today) ==
    Bind(IF (7 - (today % 7)) % 7 = 0 THEN 7 ELSE (7 - (today % 7)) % 7, LAMBDA days_until_monday :
        <<today + days_until_monday, today + days_until_monday + 6>>)

_map_suggested_time(label) ==
    IF ~Truthy(label) THEN PyNone
    ELSE IF StrLower(label.str) = "morning" THEN PyStr("09:00")
    ELSE IF StrLower(label.str) = "afternoon" THEN PyStr("13:00")
    ELSE IF StrLower(label.str) = "evening" THEN PyStr("19:00")
    ELSE PyNone

\* .limit(100)
SnapshotScanLimit == 100

NoRow == [t |-> "none"]

\* the rows of the query, newest first
RecentLogs(logs, user_id, action_type) ==
    Bind(SelectSeq(logs, LAMBDA log : log.user_id = user_id /\ log.action_type = action_type),
         LAMBDA rows :
            [i \in 1..Min(SnapshotScanLimit, Len(rows)) |-> rows[Len(rows) + 1 - i]])

\* the week of the payload is compared with the end of the week twice
FindSnapshotByWeekEnd(logs, user_id, action_type, week_start, week_end) ==
    Bind(RecentLogs(logs, user_id, action_type), LAMBDA rows :
        Bind({i \in DOMAIN rows : /\ rows[i].action_payload.week_start = week_end
                                  /\ rows[i].action_payload.week_end = week_end},
             LAMBDA hits :
                IF hits = {} THEN NoRow
                ELSE rows[CHOOSE i \in hits : \A j \in hits : i <= j]))

_find_existing_snapshot(logs, user_id, action_type, week_start, week_end) ==
    Bind(RecentLogs(logs, user_id, action_type), LAMBDA rows :
        Bind({i \in DOMAIN rows : /\ rows[i].action_payload.week_start = week_start
                                  /\ rows[i].action_payload.week_end = week_end},
             LAMBDA hits :
                IF hits = {} THEN NoRow
                ELSE rows[CHOOSE i \in hits : \A j \in hits : i <= j]))

\* the Task rows _materialize_tasks_from_plan adds, given the number of
\* rows the table holds
_materialize_tasks_from_plan(row_count, user_id, micro_resolution, week_start) ==
    [index \in 1..Len(micro_resolution.suggested_week_1_tasks) |->
        Bind(micro_resolution.suggested_week_1_tasks[index], LAMBDA suggestion :
            [id |-> row_count + index,
             user_id |-> user_id,
             resolution_id |-> PyNone,
             title |-> suggestion.title,
             duration_min |-> suggestion.duration_min,
             scheduled_day |-> week_start + ((index - 1) % 7),
             scheduled_time |-> _map_suggested_time(suggestion.suggested_time),
             metadata_json |-> [draft |-> FALSE, source |-> "rolling_wave",
                                micro_resolution_title |-> micro_resolution.title,
                                suggested_time |-> suggestion.suggested_time],
             completed |-> FALSE])]

\* the AgentActionLog row of a new snapshot
WeeklySnapshot(row_count, user_id, week, micro_resolution, created_tasks, request_id) ==
    [id |-> row_count + 1,
     user_id |-> user_id,
     action_type |-> "weekly_plan_generated",
     action_payload |-> [user_id |-> user_id,
                         week_start |-> isoformat(week[1]),
                         week_end |-> isoformat(week[2]),
                         micro_resolution |-> micro_resolution,
                         created_task_ids |-> [i \in DOMAIN created_tasks |-> created_tasks[i].id],
                         request_id |-> request_id],
     reason |-> "Rolling Wave weekly plan generated",
     undo_available |-> TRUE]

\* run_weekly_planning_for_user on the database base, today being the
\* date and micro_resolution what the planner returns when it is called:
\* the database after the call, what the call returned or raised, and how
\* often it called the planner
run_weekly_planning_for_user(base, user_id, force, today, micro_resolution) ==
    Bind(_upcoming_week_window(today), LAMBDA week :
    Bind(IF force THEN NoRow
         ELSE _find_existing_snapshot(base.logs, user_id, "weekly_plan_generated",
                                      isoformat(week[1]), isoformat(week[2])),
         LAMBDA existing :
        IF user_id \notin base.users
        THEN [db |-> base, raised |-> "ValueError", returned |-> NoRow, created |-> FALSE,
              planner_calls |-> 0]
        ELSE IF existing # NoRow
        THEN [db |-> base, raised |-> "", returned |-> existing, created |-> FALSE,
              planner_calls |-> 0]
        ELSE Bind(_materialize_tasks_from_plan(Len(base.tasks), user_id, micro_resolution,
                                               week[1]),
                  LAMBDA created_tasks :
                Bind(WeeklySnapshot(Len(base.logs), user_id, week, micro_resolution,
                                    created_tasks, ""),
                     LAMBDA log :
                    [db |-> [base EXCEPT !.tasks = base.tasks \o created_tasks,
                                         !.logs = Append(base.logs, log)],
                     raised |-> "", returned |-> log, created |-> TRUE,
                     planner_calls |-> 1]))))

MaxWeeklyCalls == 3

MaxToday == 8

\* user 1 has an account, user 2 has none
WeeklyUserIds == {1, 2}

\* what the planner can return: the fallback plan, or a plan of five tasks
WeeklyMicros ==
    {_fallback_micro_resolution,
     MicroResolutionPayload("Deep Work Week", "You finished 85% last week.",
        [i \in 1..5 |->
            SuggestedTaskPayload("Focus block " \o IntToStr(i), PyInt(20 + i),
                                 IF i = 5 THEN PyNone ELSE PyStr("Evening"))])}

\* one call of run_weekly_planning_for_user: any user, forced or not
RunWeeklyPlanning ==
    /\ service_call.fn = "run_weekly_planning_for_user"
    /\ Len(service_call.calls) < MaxWeeklyCalls
    /\ \E user_id \in WeeklyUserIds, force \in BOOLEAN, micro_resolution \in WeeklyMicros :
          \E outcome \in {run_weekly_planning_for_user(db, user_id, force, service_call.today,
                                                       micro_resolution)} :
             /\ db' = outcome.db
             /\ service_call' =
                    [service_call EXCEPT
                        !.calls = Append(service_call.calls,
                                         [user_id |-> user_id, force |-> force,
                                          week_start |-> _upcoming_week_window(service_call.today)[1],
                                          raised |-> outcome.raised,
                                          returned |-> outcome.returned,
                                          created |-> outcome.created,
                                          planner_calls |-> outcome.planner_calls,
                                          tasks_created |-> Len(outcome.db.tasks) - Len(db.tasks)])]
    /\ UNCHANGED <<ladder_vars, scheduler_vars>>

\* the day ends
Midnight ==
    /\ service_call.fn = "run_weekly_planning_for_user"
    /\ service_call.today < MaxToday
    /\ service_call' = [service_call EXCEPT !.today = service_call.today + 1]
    /\ UNCHANGED <<db, ladder_vars, scheduler_vars>>

\* a log row of another kind that carries the same week
OtherLog(user_id, week) ==
    [id |-> 1, user_id |-> user_id, action_type |-> "weekly_plan_previewed",
     action_payload |-> [user_id |-> user_id, week_start |-> isoformat(week[1]),
                         week_end |-> isoformat(week[2])],
     reason |-> "", undo_available |-> FALSE]

\* a database without snapshots, on a Saturday
WeeklyRunInit ==
    /\ \E logs \in {<<>>, <<OtherLog(1, _upcoming_week_window(5))>>} :
          db = [users |-> {1}, tasks |-> <<>>, logs |-> logs]
    /\ service_call = [fn |-> "run_weekly_planning_for_user", today |-> 5, calls |-> <<>>]
    /\ LadderIdle
    /\ SchedulerIdle

WeeklyRunNext == RunWeeklyPlanning \/ Midnight

WeeklyRunSpec == WeeklyRunInit /\ [][WeeklyRunNext]_vars

-----------------------------------------------------------------------------
(* Properties of run_weekly_planning_for_user                            *)

\* the snapshots of a user for the week that starts on week_start
SnapshotsOf(user_id, week_start) ==
    SelectSeq(db.logs, LAMBDA log : /\ log.user_id = user_id
                                    /\ log.action_type = "weekly_plan_generated"
                                    /\ log.action_payload.week_start = isoformat(week_start))

\* the calls made so far for a user and a week
CallsFor(user_id, week_start) ==
    SelectSeq(service_call.calls, LAMBDA made : /\ made.user_id = user_id
                                                /\ made.week_start = week_start)

\* the rolling-wave tasks of a user in the week that starts on week_start
WeekTasks(user_id, week_start) ==
    SelectSeq(db.tasks, LAMBDA task : /\ task.user_id = user_id
                                      /\ task.metadata_json.source = "rolling_wave"
                                      /\ task.scheduled_day \in week_start..(week_start + 6))

\* C21: for a user with an account and an upcoming week for which every
\* call so far was made with force = False, and at least one was made,
\* exactly one weekly_plan_generated snapshot exists, the tasks of that week
\* are exactly the tasks the snapshot lists, the first call created the
\* snapshot with one call of the planner, and every later call returned
\* that snapshot, called the planner no further and created no task.
C21_DeduplicatedByWeek ==
    \A user_id \in db.users, week_start \in {7, 14} :
        LET made == CallsFor(user_id, week_start)
        IN  (made # <<>> /\ \A i \in DOMAIN made : ~made[i].force) =>
                /\ Len(SnapshotsOf(user_id, week_start)) = 1
                /\ [i \in DOMAIN WeekTasks(user_id, week_start) |->
                        WeekTasks(user_id, week_start)[i].id]
                       = SnapshotsOf(user_id, week_start)[1].action_payload.created_task_ids
                /\ made[1].created /\ made[1].planner_calls = 1
                /\ \A i \in DOMAIN made :
                       /\ made[i].raised = ""
                       /\ made[i].returned = SnapshotsOf(user_id, week_start)[1]
                       /\ i > 1 => /\ ~made[i].created
                                   /\ made[i].planner_calls = 0
                                   /\ made[i].tasks_created = 0

\* three unforced calls for the same user and week, the last on the Sunday
C21_Witness ==
    /\ service_call.fn = "run_weekly_planning_for_user"
    /\ Len(CallsFor(1, 7)) >= 3
    /\ \A i \in DOMAIN CallsFor(1, 7) : ~CallsFor(1, 7)[i].force
    /\ service_call.today = 6
    /\ Len(db.tasks) = 5

-----------------------------------------------------------------------------
(* The approval endpoint: POST /resolutions/{resolution_id}/approve       *)
(*                                                                       *)
(* The resolutions table is a sequence indexed by the id of the row. A   *)
(* timestamp is the number of the request that set it.                   *)

TaskEdit(task_id, title, scheduled_day, scheduled_time, duration_min) ==
    [task_id |-> task_id, title |-> title, scheduled_day |-> scheduled_day,
     scheduled_time |-> scheduled_time, duration_min |-> duration_min]

\* TaskEdit validation: the title is stripped and is not blank, duration_min
\* is at least 1
ValidateTaskEdit(edit) ==
    IF edit.title.t = "str" /\ StrStrip(edit.title.str) = "" THEN Raise("ValidationError")
    ELSE IF edit.duration_min.t = "int" /\ edit.duration_min.int < 1 THEN Raise("ValidationError")
    ELSE Return([edit EXCEPT !.title = IF edit.title.t = "str"
                                       THEN PyStr(StrStrip(edit.title.str)) ELSE edit.title])

_is_draft_task(task) ==
    Truthy(task.metadata_json.draft) /\ task.metadata_json.source = "decomposer_v1"

\* the draft tasks of a resolution, oldest first
_fetch_draft_tasks(tasks, resolution_id) ==
    SelectSeq(tasks, LAMBDA task : task.resolution_id = resolution_id /\ _is_draft_task(task))

\* only the title of an edit is applied
ApplyTitleOnly(task, edit) ==
    [task EXCEPT !.title = IF edit.title # PyNone THEN edit.title ELSE task.title]

\* one pass of the loop of _apply_task_edits over one task
ApplyEdit(task, edit) ==
    [task EXCEPT
        !.title = IF edit.title # PyNone THEN edit.title ELSE task.title,
        !.scheduled_day = IF edit.scheduled_day # PyNone THEN edit.scheduled_day
                          ELSE task.scheduled_day,
        !.scheduled_time = IF edit.scheduled_time # PyNone THEN edit.scheduled_time
                           ELSE task.scheduled_time,
        !.duration_min = IF edit.duration_min # PyNone THEN edit.duration_min
                         ELSE task.duration_min]

RECURSIVE _apply_task_edits(_, _, _, _)
\* the tasks after the edits, and the ids of the tasks an edit has changed
_apply_task_edits(tasks, tasks_map, edits, edited) ==
    IF edits = <<>> THEN [tasks |-> tasks, edits_count |-> Cardinality(edited)]
    ELSE Bind([i \in DOMAIN tasks |->
                  IF tasks[i].id = Head(edits).task_id /\ tasks[i].id \in tasks_map
                  THEN ApplyEdit(tasks[i], Head(edits)) ELSE tasks[i]],
              LAMBDA after :
                _apply_task_edits(after, tasks_map, Tail(edits),
                                  edited \cup {tasks[i].id : i \in {j \in DOMAIN tasks :
                                                                      after[j] # tasks[j]}}))

\* _activate_tasks on the rows whose ids are in draft_ids
_activate_tasks(tasks, draft_ids, activated_at) ==
    [i \in DOMAIN tasks |->
        IF tasks[i].id \in draft_ids
        THEN [tasks[i] EXCEPT !.metadata_json.draft = PyBool(FALSE),
                              !.metadata_json.activated_at = PyInt(activated_at),
                              !.completed = FALSE,
                              !.completed_at = PyNone]
        ELSE tasks[i]]

\* the AgentActionLog row of a decision
DecisionLog(row_count, resolution, decision, extra) ==
    [id |-> row_count + 1,
     user_id |-> resolution.user_id,
     action_type |-> CASE decision = "accept" -> "resolution_approved"
                       [] decision = "reject" -> "resolution_rejected"
                       [] OTHER -> "resolution_regenerate_requested",
     action_payload |-> [resolution_id |-> resolution.id, decision |-> decision] @@ extra,
     undo_available |-> (decision = "accept")]

\* the request is answered with an HTTPException and the session is rolled
\* back: the database is the one before the request
Refused(base, status_code) ==
    [db |-> base, status_code |-> status_code, raised |-> "", tasks_activated |-> <<>>]

\* an exception that is no HTTPException: rolled back and raised again
Failed(base, exc) ==
    [db |-> base, status_code |-> 500, raised |-> exc, tasks_activated |-> <<>>]

\* db.commit(): the pending changes reach the database, or IntegrityError
\* is answered with 500 after the rollback
Commit(base, pending, fault, tasks_activated) ==
    IF fault = "commit" THEN Refused(base, 500)
    ELSE [db |-> pending, status_code |-> 200, raised |-> "",
          tasks_activated |-> tasks_activated]

\* every task id of the edits is taken for valid
NoInvalidEdits(tasks_map, task_edits) == <<>>

\* the task ids of the edits that are no draft task of the resolution
invalid_edits(tasks_map, task_edits) ==
    Bind(SelectSeq(task_edits, LAMBDA edit : edit.task_id \notin tasks_map), LAMBDA refused :
        [i \in DOMAIN refused |-> refused[i].task_id])

\* the branch decision == "accept"
Accept(base, resolution, request, now, fault) ==
    Bind(_fetch_draft_tasks(base.tasks, resolution.id), LAMBDA draft_tasks :
        IF resolution.status = "active" THEN Refused(base, 409)
        ELSE IF resolution.metadata_json.plan_v1 = Missing THEN Refused(base, 409)
        ELSE IF draft_tasks = <<>> THEN Refused(base, 409)
        ELSE Bind({draft_tasks[i].id : i \in {j \in DOMAIN draft_tasks :
                                                draft_tasks[j].user_id = resolution.user_id}},
                  LAMBDA tasks_map :
                IF invalid_edits(tasks_map, request.task_edits) # <<>>
                THEN Refused(base, 400)
                ELSE
                Bind(_apply_task_edits(base.tasks, tasks_map, request.task_edits, {}),
                     LAMBDA edited :
                    IF fault = "_activate_tasks" THEN Failed(base, "RuntimeError")
                    ELSE Bind({draft_tasks[i].id : i \in DOMAIN draft_tasks}, LAMBDA draft_ids :
                         Bind(_activate_tasks(edited.tasks, draft_ids, now), LAMBDA activated :
                            Commit(base,
                                   [base EXCEPT
                                       !.tasks = activated,
                                       !.resolutions[resolution.id].status = "active",
                                       !.resolutions[resolution.id].metadata_json.approved_at
                                           = PyInt(now),
                                       !.logs = Append(base.logs,
                                                  DecisionLog(Len(base.logs), resolution, "accept",
                                                      [tasks_approved |->
                                                           [i \in DOMAIN draft_tasks |->
                                                               draft_tasks[i].id],
                                                       edits_count |-> edited.edits_count]))],
                                   fault,
                                   SelectSeq(activated, LAMBDA task : task.id \in draft_ids)))))))

\* a decision is also recorded in the status of the resolution
KeepDraftAsRejected(base, resolution, request, now, fault) ==
    IF request.task_edits # <<>> THEN Refused(base, 400)
    ELSE Commit(base,
                [base EXCEPT
                    !.resolutions[resolution.id].status = "rejected",
                    !.logs = Append(base.logs, DecisionLog(Len(base.logs), resolution,
                                                           request.decision, << >>))],
                fault, <<>>)

\* the branches decision == "reject" and regenerate
KeepDraft(base, resolution, request, now, fault) ==
    IF request.task_edits # <<>> THEN Refused(base, 400)
    ELSE Commit(base,
                [base EXCEPT
                    !.resolutions[resolution.id].metadata_json =
                        IF request.decision = "reject"
                        THEN [@ EXCEPT !.rejected_at = PyInt(now)]
                        ELSE [@ EXCEPT !.regeneration_requested_at = PyInt(now)],
                    !.logs = Append(base.logs, DecisionLog(Len(base.logs), resolution,
                                                           request.decision, << >>))],
                fault, <<>>)

\* the endpoint on the database base, for a request whose body has passed
\* the validation of ApprovalRequest
approve_resolution_endpoint(base, request, now, fault) ==
    IF request.resolution_id \notin DOMAIN base.resolutions THEN Refused(base, 404)
    ELSE Bind(base.resolutions[request.resolution_id], LAMBDA resolution :
            IF resolution.user_id # request.user_id THEN Refused(base, 403)
            ELSE IF request.decision = "accept" THEN Accept(base, resolution, request, now, fault)
            ELSE KeepDraft(base, resolution, request, now, fault))

\* the validation of the request body, then the endpoint
HandleApproval(base, request, now, fault) ==
    IF \E i \in DOMAIN request.task_edits : ValidateTaskEdit(request.task_edits[i]).err
    THEN Refused(base, 422)
    ELSE approve_resolution_endpoint(
             base,
             [request EXCEPT !.task_edits = [i \in DOMAIN request.task_edits |->
                                                ValidateTaskEdit(request.task_edits[i]).v]],
             now, fault)

MaxApprovalRequests == 2

\* a task row as _create_tasks_from_specs writes it
DraftTask(id, user_id, resolution_id, title, draft) ==
    [id |-> id, user_id |-> user_id, resolution_id |-> resolution_id, title |-> PyStr(title),
     scheduled_day |-> PyInt(id), scheduled_time |-> PyStr("07:30"), duration_min |-> PyInt(20),
     metadata_json |-> [draft |-> PyBool(draft), source |-> "decomposer_v1",
                        activated_at |-> Missing],
     completed |-> FALSE, completed_at |-> PyNone]

ResolutionRow(id, user_id, plan_v1) ==
    [id |-> id, user_id |-> user_id, status |-> "draft",
     metadata_json |-> [plan_v1 |-> plan_v1, approved_at |-> Missing, rejected_at |-> Missing,
                        regeneration_requested_at |-> Missing]]

StoredPlan == PyDict([weeks |-> PyInt(8)])

\* resolution 1 of user 1 with two draft tasks, resolution 2 of user 2 with
\* one, resolution 3 not yet decomposed, resolution 4 whose only task is
\* no draft
ApprovalDatabase ==
    [users |-> {1, 2},
     resolutions |-> <<ResolutionRow(1, 1, StoredPlan), ResolutionRow(2, 2, StoredPlan),
                       ResolutionRow(3, 1, Missing), ResolutionRow(4, 1, StoredPlan)>>,
     tasks |-> <<DraftTask(1, 1, 1, "Morning walk", TRUE), DraftTask(2, 1, 1, "Stretch", TRUE),
                 DraftTask(3, 2, 2, "Read ten pages", TRUE),
                 DraftTask(4, 1, 4, "Journal", FALSE)>>,
     logs |-> <<>>]

\* the lists of task edits a request can carry
ApprovalEdits ==
    {<<>>,
     <<TaskEdit(1, PyStr(" Walk "), PyInt(3), PyStr("09:00"), PyInt(35))>>,
     <<TaskEdit(1, PyNone, PyNone, PyNone, PyInt(35)),
       TaskEdit(2, PyStr("Stretch"), PyNone, PyNone, PyNone),
       TaskEdit(1, PyNone, PyInt(4), PyNone, PyInt(40))>>,
     <<TaskEdit(3, PyNone, PyInt(32), PyNone, PyNone)>>,
     <<TaskEdit(4, PyNone, PyInt(32), PyNone, PyNone)>>,
     <<TaskEdit(2, PyStr("  "), PyNone, PyNone, PyNone)>>}

\* who asks for which resolution: user 1 for every resolution and for one
\* that does not exist, user 2 for the resolutions 1 and 2
ApprovalCallers ==
    {[resolution_id |-> resolution_id, user_id |-> 1] : resolution_id \in {1, 2, 3, 4, 9}}
    \cup {[resolution_id |-> resolution_id, user_id |-> 2] : resolution_id \in {1, 2}}

\* a request and what goes wrong while it is served: nothing, _activate_tasks
\* raises (accept calls it), the commit fails
ApprovalRequests ==
    {[request |-> [resolution_id |-> caller.resolution_id, user_id |-> caller.user_id,
                   decision |-> "accept", task_edits |-> task_edits],
      fault |-> fault] :
        caller \in ApprovalCallers, task_edits \in ApprovalEdits,
        fault \in {"none", "_activate_tasks", "commit"}}
    \cup {[request |-> [resolution_id |-> caller.resolution_id, user_id |-> caller.user_id,
                        decision |-> decision, task_edits |-> task_edits],
           fault |-> "none"] :
        caller \in ApprovalCallers, decision \in {"reject", "regenerate"},
        task_edits \in {<<>>, <<TaskEdit(1, PyNone, PyInt(3), PyNone, PyNone)>>}}
    \cup {[request |-> [resolution_id |-> 1, user_id |-> 1, decision |-> "reject",
                        task_edits |-> <<>>],
           fault |-> "commit"]}

\* one request to the endpoint
ApproveResolution ==
    /\ service_call.fn = "approve_resolution_endpoint"
    /\ service_call.now < MaxApprovalRequests
    /\ \E asked \in ApprovalRequests :
          \E request \in {asked.request}, fault \in {asked.fault},
             outcome \in {HandleApproval(db, asked.request, service_call.now + 1, asked.fault)} :
             /\ db' = outcome.db
             /\ service_call' =
                    [service_call EXCEPT
                        !.now = service_call.now + 1,
                        !.request = request,
                        !.fault = fault,
                        !.before = db,
                        !.status_code = outcome.status_code,
                        !.raised = outcome.raised,
                        !.tasks_activated = outcome.tasks_activated,
                        !.decisions = IF outcome.status_code = 200 /\ request.decision # "accept"
                                      THEN Append(service_call.decisions,
                                                  [resolution_id |-> request.resolution_id,
                                                   decision |-> request.decision])
                                      ELSE service_call.decisions]
    /\ UNCHANGED <<ladder_vars, scheduler_vars>>

ApprovalInit ==
    /\ db = ApprovalDatabase
    /\ service_call = [fn |-> "approve_resolution_endpoint", now |-> 0, request |-> Unset,
                       fault |-> "none", before |-> Unset, status_code |-> 0, raised |-> "",
                       tasks_activated |-> <<>>, decisions |-> <<>>]
    /\ LadderIdle
    /\ SchedulerIdle

ApprovalNext == ApproveResolution

ApprovalSpec == ApprovalInit /\ [][ApprovalNext]_vars

-----------------------------------------------------------------------------
(* Properties of the approval endpoint                                   *)

\* the request served last and the resolution it names, as it was before
AskedResolution == service_call.before.resolutions[service_call.request.resolution_id]

\* the body of the last request meets the schema of ApprovalRequest
WellFormed ==
    \A i \in DOMAIN service_call.request.task_edits :
        ~ValidateTaskEdit(service_call.request.task_edits[i]).err

\* the last request names a resolution that exists, and its owner sent it
ByOwner ==
    /\ service_call.request # Unset
    /\ service_call.request.resolution_id \in DOMAIN service_call.before.resolutions
    /\ AskedResolution.user_id = service_call.request.user_id

\* the ids of the draft tasks the resolution had before the last request
DraftIdsBefore ==
    {service_call.before.tasks[i].id : i \in
        {j \in DOMAIN service_call.before.tasks :
            /\ service_call.before.tasks[j].resolution_id = service_call.request.resolution_id
            /\ service_call.before.tasks[j].metadata_json.draft = PyBool(TRUE)
            /\ service_call.before.tasks[j].metadata_json.source = "decomposer_v1"}}

\* the value a field of a task has once the edits are applied: that of the
\* last edit of the task that gives the field, else the value before
Edited(task, field) ==
    LET edits == service_call.request.task_edits
        given == {i \in DOMAIN edits : edits[i].task_id = task.id /\ edits[i][field] # PyNone}
        last  == CHOOSE i \in given : \A j \in given : j <= i
    IN  IF given = {} THEN task[field]
        ELSE IF field = "title" THEN PyStr(StrStrip(edits[last].title.str))
        ELSE edits[last][field]

\* the last request is an accept the claim C22 speaks of
AcceptOfDraft ==
    /\ ByOwner
    /\ WellFormed
    /\ service_call.request.decision = "accept"
    /\ service_call.fault = "none"
    /\ AskedResolution.status = "draft"
    /\ AskedResolution.metadata_json.plan_v1 # Missing
    /\ DraftIdsBefore # {}
    /\ \A i \in DOMAIN service_call.request.task_edits :
           service_call.request.task_edits[i].task_id \in DraftIdsBefore

\* C22: an accept sent by the owner for a draft resolution with a stored
\* plan and at least one draft task, whose edits name only draft tasks of
\* that resolution, is answered with 200; afterwards the resolution is
\* active, every task that was a draft task of it has draft = False and the
\* fields of the edits, every other row is as before, and the log has grown
\* by exactly one resolution_approved entry with undo_available = True.
C22_AcceptActivates ==
    AcceptOfDraft =>
        /\ service_call.status_code = 200
        /\ db.resolutions[service_call.request.resolution_id].status = "active"
        /\ \A r \in DOMAIN db.resolutions :
               r # service_call.request.resolution_id =>
                   db.resolutions[r] = service_call.before.resolutions[r]
        /\ DOMAIN db.tasks = DOMAIN service_call.before.tasks
        /\ \A i \in DOMAIN db.tasks :
               LET was == service_call.before.tasks[i]
               IN  IF was.id \in DraftIdsBefore
                   THEN /\ db.tasks[i].metadata_json.draft = PyBool(FALSE)
                        /\ \A field \in {"title", "scheduled_day", "scheduled_time",
                                         "duration_min"} :
                               db.tasks[i][field] = Edited(was, field)
                   ELSE db.tasks[i] = was
        /\ Len(db.logs) = Len(service_call.before.logs) + 1
        /\ SubSeq(db.logs, 1, Len(service_call.before.logs)) = service_call.before.logs
        /\ db.logs[Len(db.logs)].action_type = "resolution_approved"
        /\ db.logs[Len(db.logs)].undo_available

\* an accept with two edits of one task has been served
C22_Witness ==
    /\ AcceptOfDraft
    /\ Len(service_call.request.task_edits) = 3
    /\ db.tasks[1].duration_min = PyInt(40)
    /\ db.tasks[2].metadata_json.draft = PyBool(FALSE)

\* the accept of the owner that is refused with 409
AcceptConflict ==
    /\ ByOwner
    /\ service_call.request.decision = "accept"
    /\ \/ AskedResolution.status = "active"
       \/ AskedResolution.metadata_json.plan_v1 = Missing
       \/ DraftIdsBefore = {}

\* the accept of the owner with an edit of a task that is no draft task of
\* the resolution
AcceptBadEdits ==
    /\ ByOwner
    /\ service_call.request.decision = "accept"
    /\ ~AcceptConflict
    /\ \E i \in DOMAIN service_call.request.task_edits :
           service_call.request.task_edits[i].task_id \notin DraftIdsBefore

\* C23: after a request from a user who does not own the resolution (403),
\* an accept on an active resolution, without a stored plan or without
\* draft tasks (409), an accept with an edit of a task that is no draft
\* task of the resolution (400), and an accept during which _activate_tasks
\* raises or the commit fails, the resolutions, the tasks and the action log
\* are exactly as they were before the request.
C23_RefusedRequestsChangeNothing ==
    service_call.request # Unset =>
        /\ (/\ service_call.request.resolution_id \in DOMAIN service_call.before.resolutions
            /\ ~ByOwner) =>
               /\ db = service_call.before
               /\ WellFormed => service_call.status_code = 403
        /\ AcceptConflict =>
               /\ db = service_call.before
               /\ WellFormed => service_call.status_code = 409
        /\ AcceptBadEdits =>
               /\ db = service_call.before
               /\ WellFormed => service_call.status_code = 400
        /\ (service_call.request.decision = "accept" /\ service_call.fault # "none") =>
               /\ db = service_call.before
               /\ service_call.status_code # 200

\* an accept of the owner was refused for an edit of a task of another
\* resolution, after a decision had been logged
C23_Witness ==
    /\ AcceptBadEdits
    /\ WellFormed
    /\ service_call.status_code = 400
    /\ db.logs # <<>>

\* the log entries of the reject and regenerate decisions, in their order
DecisionsLogged ==
    Bind(SelectSeq(db.logs, LAMBDA log : log.action_type \in {"resolution_rejected",
                                                              "resolution_regenerate_requested"}),
         LAMBDA entries :
            [i \in DOMAIN entries |-> [resolution_id |-> entries[i].action_payload.resolution_id,
                                       decision |-> entries[i].action_payload.decision]])

\* C24: a reject or regenerate request changes the status of no resolution,
\* no stored plan and no task; sent by the owner without task edits it is
\* answered with 200 and appends exactly one log entry, resolution_rejected
\* or resolution_regenerate_requested with undo_available = False; and the
\* log entries of these decisions are in the order the decisions were made.
C24_RejectAndRegenerateKeepState ==
    /\ service_call.fn = "approve_resolution_endpoint" => DecisionsLogged = service_call.decisions
    /\ (service_call.request # Unset /\ service_call.request.decision # "accept") =>
          /\ db.tasks = service_call.before.tasks
          /\ \A r \in DOMAIN db.resolutions :
                 /\ db.resolutions[r].status = service_call.before.resolutions[r].status
                 /\ db.resolutions[r].metadata_json.plan_v1
                        = service_call.before.resolutions[r].metadata_json.plan_v1
          /\ (ByOwner /\ service_call.request.task_edits = <<>> /\ service_call.fault = "none") =>
                 /\ service_call.status_code = 200
                 /\ Len(db.logs) = Len(service_call.before.logs) + 1
                 /\ SubSeq(db.logs, 1, Len(service_call.before.logs)) = service_call.before.logs
                 /\ db.logs[Len(db.logs)].action_type =
                        (IF service_call.request.decision = "reject" THEN "resolution_rejected"
                         ELSE "resolution_regenerate_requested")
                 /\ ~db.logs[Len(db.logs)].undo_available
          /\ service_call.status_code # 200 => db.logs = service_call.before.logs

\* a draft resolution was rejected and then a regeneration requested
C24_Witness ==
    /\ service_call.fn = "approve_resolution_endpoint"
    /\ service_call.decisions = <<[resolution_id |-> 1, decision |-> "reject"],
                                  [resolution_id |-> 1, decision |-> "regenerate"]>>
    /\ db.resolutions[1].status = "draft"
    /\ Len(db.logs) = 2

-----------------------------------------------------------------------------
(* Properties of the repair and regenerate stages                        *)

\* the step issues the LLM call of `stage` and no evaluation follows it: the
\* call raised, or its answer failed parsing, validation or post-processing
CallGaveNoPlan(stage) ==
    /\ pc = stage
    /\ events' = Append(events, LLMCall(stage))

\* C25: a repair or regenerate call that gives no plan leaves plan_dict and
\* evaluation as they were and raises nothing; after the repair stage the
\* ladder is at the regenerate stage, after the regenerate stage at the
\* fallback stage; and no step of the two stages ends the request with an
\* exception.
C25_FailedRepairIsSwallowed ==
    [][/\ CallGaveNoPlan("repair") =>
              /\ plan_dict' = plan_dict
              /\ evaluation' = evaluation
              /\ pc' = "regenerate"
              /\ exception' = ""
       /\ CallGaveNoPlan("regenerate") =>
              /\ plan_dict' = plan_dict
              /\ evaluation' = evaluation
              /\ pc' = "fallback"
              /\ exception' = ""
       /\ pc \in {"repair", "regenerate"} => pc' # "raised"]_vars

\* the repair call and the regenerate call both gave no plan, and the
\* request returned the fallback plan
C25_Witness ==
    /\ pc = "done"
    /\ \E i \in 1..(Len(events) - 2) :
           /\ IsLLMCall(events[i], "repair")
           /\ IsLLMCall(events[i + 1], "regenerate")
           /\ events[i + 2] = FallbackBuilt
    /\ fallback_used
    /\ exception = ""

-----------------------------------------------------------------------------
(* Properties of day selection and time slots                            *)

\* constraints (a), (b) and (c) for the day d, read off the state the last
\* placement of invocation i started from; (c) binds a task longer than 60
\* minutes, and within 1 day means the day before, the day itself and the
\* day after
Acceptable(i, d) ==
    LET placement == inv[i].last
        preferred == inv[i].env.preferred_days
        last_long == placement.before.last_long_day
    IN  /\ preferred = <<>> \/ Weekday(d, inv[i].env.today_weekday) \in SeqRange(preferred)
        /\ HeavyOn(placement.before.daily_load, d) < 2
        /\ ~(/\ placement.duration > 60
             /\ last_long # PyNone
             /\ d - last_long.int \in -1..1)

\* C26: when some day of the 21 days from the target day matches the
\* weekday preference (or none is given), holds fewer than 2 tasks of 15
\* minutes or more, and, for a task longer than 60 minutes, is more than
\* 1 day away from the last long session, the day returned is the earliest
\* such day.
C26_FirstAcceptableDay ==
    \A i \in DOMAIN inv :
        (/\ inv[i].last # NoPlacement
         /\ \E d \in Lookahead(inv[i].last.target_day) : Acceptable(i, d)) =>
            /\ Acceptable(i, inv[i].last.day)
            /\ \A d \in Lookahead(inv[i].last.target_day) :
                   Acceptable(i, d) => inv[i].last.day <= d

\* the number of durations the ledger holds
LedgerSize(daily_load) ==
    Bind(SortedSeq(DOMAIN daily_load), LAMBDA days :
        SumSeq([k \in 1..Len(days) |-> Len(daily_load[days[k]])]))

\* C27: a placement for which no day of the 21 days from the target day
\* satisfies the constraints is made on the target day; every placement
\* appends the duration to the ledger entry of the day returned and leaves
\* the entries of all other days as they were, so that the ledger holds as
\* many durations as placements were made; and the last long day becomes
\* the day returned when the duration is over 60 and stays otherwise.
C27_ForcedPlacementAndLedger ==
    \A i \in DOMAIN inv :
        /\ LedgerSize(inv[i].acc.daily_load) = Len(inv[i].acc.enriched)
        /\ inv[i].last # NoPlacement =>
              LET placement == inv[i].last
                  was == placement.before.daily_load
                  now == inv[i].acc.daily_load
              IN  /\ (\A d \in Lookahead(placement.target_day) : ~Acceptable(i, d)) =>
                         placement.day = placement.target_day
                  /\ now[placement.day] = Append(LoadOn(was, placement.day), placement.duration)
                  /\ \A d \in DOMAIN now : d # placement.day => now[d] = LoadOn(was, d)
                  /\ DOMAIN was \subseteq DOMAIN now
                  /\ inv[i].acc.last_long_day =
                         (IF placement.duration > 60 THEN PyInt(placement.day)
                          ELSE placement.before.last_long_day)

\* a task was placed on its target day although the day held two heavy
\* tasks, no day of the scan being acceptable
C27_Witness ==
    \E i \in DOMAIN inv :
        /\ inv[i].last # NoPlacement
        /\ \A d \in Lookahead(inv[i].last.target_day) : ~Acceptable(i, d)
        /\ inv[i].last.day = inv[i].last.target_day
        /\ inv[i].last.target_day > 0
        /\ Len(inv[i].acc.daily_load[inv[i].last.day]) >= 1

\* the time at `steps` half hours after the base time
HalfHoursAfter(base_time, steps) ==
    _minutes_to_time(_time_str_to_minutes(base_time) + (30 * steps))

\* C28: a task receives the earliest time among the base time and the 5
\* times at 30, 60, 90, 120 and 150 minutes after it that no task placed
\* earlier on the same day has, and the base time when all 6 are taken.
C28_EarliestFreeSlotOfSix ==
    \A i \in DOMAIN inv :
        inv[i].last # NoPlacement =>
            LET placement == inv[i].last
                slots == placement.before.daily_time_slots
                used == IF placement.day \in DOMAIN slots THEN slots[placement.day] ELSE {}
                base_time == _pick_time(inv[i].env.time_pref, inv[i].env.work_hours)
                free == {k \in 0..5 : HalfHoursAfter(base_time, k) \notin used}
            IN  IF free = {} THEN placement.time = base_time
                ELSE placement.time
                         = HalfHoursAfter(base_time, CHOOSE k \in free : \A m \in free : k <= m)
-----------------------------------------------------------------------------
(* The time of day of a task                                             *)

TimeResolutionTypes ==
    {PyNone, PyStr("habit"), PyStr("health"), PyStr("fitness"), PyStr("skill"),
     PyStr("learning"), PyStr("project"), PyStr("hobby"), PyStr("finance"),
     PyStr("Habit")}

\* preferred_time_blocks of the user context
TimeBlocks ==
    {<<>>, <<"morning">>, <<"afternoon">>, <<" Evening ">>, <<"night", "morning">>,
     <<"lunch">>}

\* work_hours of the user context
TimeWorkHours ==
    {PyNone, PyStr(""), PyStr("09:00-17:00"), PyStr("09:30-17:00"),
     PyStr("07:45-16:00"), PyStr("09:00-19:30"), PyStr("08:00 - 13:00"),
     PyStr("22:00-06:00"), PyStr("9am-5pm"), PyStr("9-17")}

TimeOfDayCalls ==
    [fn : {"pick_time"}, resolution_type : TimeResolutionTypes,
     preferred_blocks : TimeBlocks, work_hours : TimeWorkHours,
     done : {FALSE}, time_pref : {""}, base_time : {""}]

\* time_pref = _preferred_time_for_resolution(resolution_type, preferred_blocks)
\* and, for each task, base_time = _pick_time(time_pref, work_hours)
PickBaseTime ==
    /\ service_call # Unset
    /\ service_call.fn = "pick_time"
    /\ ~service_call.done
    /\ \E time_pref \in {_preferred_time_for_resolution(service_call.resolution_type, service_call.preferred_blocks)} :
          service_call' = [service_call EXCEPT
              !.done = TRUE,
              !.time_pref = time_pref,
              !.base_time = _pick_time(time_pref, service_call.work_hours)]
    /\ UNCHANGED outside_services

\* one user context and goal type
TimeOfDayInit ==
    /\ service_call \in TimeOfDayCalls
    /\ LadderIdle
    /\ SchedulerIdle
    /\ DatabaseIdle

TimeOfDayNext == PickBaseTime

TimeOfDaySpec == TimeOfDayInit /\ [][TimeOfDayNext]_vars

-----------------------------------------------------------------------------
(* Properties of the time of day                                         *)

\* the default time of a goal type, whatever its case
GoalTypeDefault(resolution_type) ==
    LET normalized == IF resolution_type = PyNone THEN "" ELSE StrLower(resolution_type.str)
    IN  IF normalized \in {"habit", "health", "fitness"} THEN "07:30"
        ELSE IF normalized \in {"skill", "learning", "project", "hobby"} THEN "19:00"
        ELSE "10:00"

\* the time of the first time block the user prefers
BlockTime(label) ==
    LET first == StrLower(StrStrip(label))
    IN  IF first = "morning" THEN "07:30"
        ELSE IF first = "afternoon" THEN "13:00"
        ELSE IF first = "evening" THEN "19:00"
        ELSE IF first = "night" THEN "21:00"
        ELSE "09:00"

\* work hours written "HH:MM-HH:MM"
WorkHoursWindow(work_hours) ==
    LET segments == StrSplitOn(work_hours.str, "-")
    IN  IF /\ Len(segments) = 2
           /\ IsClockTime(PyStr(StrStrip(segments[1])))
           /\ IsClockTime(PyStr(StrStrip(segments[2])))
        THEN [given |-> TRUE,
              start |-> _time_str_to_minutes(StrStrip(segments[1])),
              end |-> _time_str_to_minutes(StrStrip(segments[2]))]
        ELSE [given |-> FALSE, start |-> 0, end |-> 0]

\* C29: the preferred time is the time of the user's first time block when
\* one is given and the default of the goal type otherwise; with work hours
\* "HH:MM-HH:MM" the base time is 18:30 when start <= preferred time < end
\* as times of day and the preferred time otherwise, and without work hours
\* it is the preferred time.
C29_BaseTimeAndWorkHours ==
    (service_call # Unset /\ service_call.fn = "pick_time" /\ service_call.done) =>
        LET blocks == service_call.preferred_blocks
            preferred == IF blocks # <<>> THEN BlockTime(blocks[1])
                         ELSE GoalTypeDefault(service_call.resolution_type)
            work_hours == service_call.work_hours
            at == _time_str_to_minutes(preferred)
        IN  /\ service_call.time_pref = preferred
            /\ ~Truthy(work_hours) => service_call.base_time = preferred
            /\ (Truthy(work_hours) /\ WorkHoursWindow(work_hours).given) =>
                   service_call.base_time
                       = (IF WorkHoursWindow(work_hours).start <= at /\ at < WorkHoursWindow(work_hours).end
                          THEN "18:30" ELSE preferred)

\* C29, base time only: the preferred time is as claimed, and without work
\* hours it is the base time
C29_PreferredTime ==
    (service_call # Unset /\ service_call.fn = "pick_time" /\ service_call.done) =>
        LET blocks == service_call.preferred_blocks
            preferred == IF blocks # <<>> THEN BlockTime(blocks[1])
                         ELSE GoalTypeDefault(service_call.resolution_type)
        IN  /\ service_call.time_pref = preferred
            /\ ~Truthy(service_call.work_hours) => service_call.base_time = preferred
-----------------------------------------------------------------------------
(* Expanding a specific_days cadence                                     *)

\* the days value of a specific_days cadence dict
RequestedDayLists ==
    {PyNone,
     PyList(<<>>),
     PyList(<<PyStr("monday")>>),
     PyList(<<PyStr("Monday"), PyStr("WEDNESDAY "), PyStr(" friday")>>),
     PyList(<<PyStr("sunday"), PyStr("sunday")>>),
     PyList(<<PyStr("saturday"), PyStr("monday"), PyStr("saturday")>>),
     PyList(<<PyStr("sunday"), PyStr("tuesday")>>),
     PyList(<<PyStr("monday"), PyStr("tuesday"), PyStr("wednesday"), PyStr("thursday"),
              PyStr("friday"), PyStr("saturday"), PyStr("sunday")>>),
     PyList(<<PyStr("thursday"), PyInt(3)>>),
     PyList(<<PyStr("tuesday"), PyStr("someday")>>)}

TargetDaysCalls ==
    [fn : {"expand_target_days"},
     cadence : {CadenceDict(PyStr("specific_days"), PyNone, days, PyNone) :
                    days \in RequestedDayLists},
     week_start : 0..MaxWeekStart, today_weekday : 0..6, repeat_daily : BOOLEAN,
     done : {FALSE}, returned : {PyNone}]

\* cadence_struct = _build_cadence_struct(base.get("cadence")) and then
\* _expand_target_days(cadence_struct, week_start, repeat_daily, ...)
ExpandTargetDays ==
    /\ service_call # Unset
    /\ service_call.fn = "expand_target_days"
    /\ ~service_call.done
    /\ \E built \in {_build_cadence_struct(service_call.cadence)} :
          service_call' = [service_call EXCEPT
              !.done = TRUE,
              !.returned = IF built.err THEN built
                           ELSE _expand_target_days(built.v, service_call.week_start,
                                                    service_call.repeat_daily,
                                                    service_call.today_weekday)]
    /\ UNCHANGED outside_services

\* one task with a specific_days cadence, a week start and the weekday of
\* day 0
TargetDaysInit ==
    /\ service_call \in TargetDaysCalls
    /\ LadderIdle
    /\ SchedulerIdle
    /\ DatabaseIdle

TargetDaysNext == ExpandTargetDays

TargetDaysSpec == TargetDaysInit /\ [][TargetDaysNext]_vars

-----------------------------------------------------------------------------
(* Properties of the specific_days expansion                             *)

\* the weekdays 0..6 (Monday 0) a days value names, in any case and with
\* surrounding blanks
RequestedWeekdays(days) ==
    IF days.t # "list" THEN {}
    ELSE {n \in 0..6 : \E k \in 1..Len(days.list) :
             /\ days.list[k].t = "str"
             /\ StrLower(StrStrip(days.list[k].str)) = DayNames[n + 1]}

\* the first day on or after week_start that falls on the weekday
NextOccurrence(weekday, week_start, today_weekday) ==
    CHOOSE d \in week_start..(week_start + 13) :
        /\ Weekday(d, today_weekday) = weekday
        /\ \A e \in week_start..(d - 1) : Weekday(e, today_weekday) # weekday

\* C30: for every week_start and every set of requested weekdays, the
\* expansion of a specific_days cadence returns, in ascending order and
\* once each, the next occurrence on or after week_start of every requested
\* weekday; each lies within the 7 days from week_start, and no returned
\* day falls on a weekday that was not requested.
C30_SpecificDaysExpansion ==
    (service_call # Unset /\ service_call.fn = "expand_target_days" /\ service_call.done) =>
        LET requested == RequestedWeekdays(service_call.cadence.dict.days)
            week_start == service_call.week_start
            today_weekday == service_call.today_weekday
        IN  /\ ~service_call.returned.err
            /\ LET days == service_call.returned.v
               IN  /\ Len(days) = Cardinality(requested)
                   /\ SeqRange(days)
                          = {NextOccurrence(w, week_start, today_weekday) : w \in requested}
                   /\ \A k \in 1..Len(days) :
                          /\ days[k] \in week_start..(week_start + 6)
                          /\ Weekday(days[k], today_weekday) \in requested
                   /\ \A k \in 1..(Len(days) - 1) : days[k] < days[k + 1]

\* Saturday, Monday and Saturday again were requested for a week that
\* starts on a Wednesday: Saturday comes 3 days and Monday 5 days after the
\* week start, each once
C30_Witness ==
    /\ service_call # Unset
    /\ service_call.fn = "expand_target_days"
    /\ service_call.done
    /\ RequestedWeekdays(service_call.cadence.dict.days) = {0, 5}
    /\ Len(service_call.cadence.dict.days.list) = 3
    /\ Weekday(service_call.week_start, service_call.today_weekday) = 2
    /\ service_call.week_start > 0
    /\ service_call.returned.v = <<service_call.week_start + 3, service_call.week_start + 5>>
-----------------------------------------------------------------------------
(* Normalizing and expanding a loosely typed cadence                     *)

LooseCadenceTypes ==
    {PyNone, PyStr("x_per_week"), PyStr("specific_days"), PyStr("Weekly"),
     PyStr("biweekly"), PyStr("daily"), PyStr("once")}

LooseCadenceCounts == {PyNone, PyInt(3), PyInt(0), PyInt(-2), PyStr("three"), PyStr("2")}

LooseCadenceDays ==
    {PyNone, PyList(<<>>), PyList(<<PyStr("monday"), PyStr("wednesday")>>),
     PyList(<<PyStr("funday")>>)}

\* the cadence value of a task: a phrase, a dict, nothing or a number
LooseCadences ==
    {PyNone, PyInt(5), PyStr(""), PyStr("3x per week"), PyStr("twice_per_week"),
     PyStr("daily performance windows"), PyStr("daily"), PyStr("Daily"), PyStr("once"),
     PyStr("flex"), PyStr("weekly"), PyStr("3x_per_week"), PyStr("specific_days"),
     PyStr("5x weekly mornings")}
    \cup {CadenceDict(type, count, days, PyNone) :
              type \in LooseCadenceTypes, count \in LooseCadenceCounts,
              days \in LooseCadenceDays}

CadenceCalls ==
    [fn : {"cadence"}, cadence : LooseCadences, today_weekday : {0, 3},
     repeat_daily : BOOLEAN, done : {FALSE}, struct : {PyNone}, target_days : {PyNone}]

\* the first steps of the loop body of _enrich_tasks_with_schedule, with
\* week_start day 0: build the cadence struct, expand it, and take
\* week_start when no day comes out
TargetDaysOrWeekStart(built, week_start, repeat_daily, today_weekday) ==
    IF built.err THEN built
    ELSE Bind(_expand_target_days(built.v, week_start, repeat_daily, today_weekday),
              LAMBDA expanded :
             IF expanded.err THEN expanded
             ELSE IF expanded.v = <<>> THEN Return(<<week_start>>)
             ELSE expanded)

NormalizeAndExpand ==
    /\ service_call # Unset
    /\ service_call.fn = "cadence"
    /\ ~service_call.done
    /\ \E built \in {_build_cadence_struct(service_call.cadence)} :
          service_call' = [service_call EXCEPT
              !.done = TRUE,
              !.struct = built,
              !.target_days = TargetDaysOrWeekStart(built, 0, service_call.repeat_daily,
                                                    service_call.today_weekday)]
    /\ UNCHANGED outside_services

\* one task with a loosely typed cadence
CadenceInit ==
    /\ service_call \in CadenceCalls
    /\ LadderIdle
    /\ SchedulerIdle
    /\ DatabaseIdle

CadenceNext == NormalizeAndExpand

CadenceSpec == CadenceInit /\ [][CadenceNext]_vars

-----------------------------------------------------------------------------
(* Properties of cadence normalization                                   *)

CanonicalCadenceTypes == {"daily", "specific_days", "x_per_week", "once", "flex"}

CadenceDone == service_call # Unset /\ service_call.fn = "cadence" /\ service_call.done

\* C31: for every loosely typed cadence value (a phrase, a dict with type,
\* count and days, nothing), the type of the normalized cadence is one of
\* daily, specific_days, x_per_week, once and flex.
C31_CanonicalCadenceType ==
    CadenceDone =>
        /\ ~service_call.struct.err
        /\ service_call.struct.v.type.t = "str"
        /\ service_call.struct.v.type.str \in CanonicalCadenceTypes

\* C31, the part that holds: the normalization returns, and the aliases of
\* once, twice and thrice a week and weekly come out as x_per_week
C31_AliasesAreCanonical ==
    CadenceDone =>
        /\ ~service_call.struct.err
        /\ (/\ service_call.cadence.t = "str"
            /\ StrLower(service_call.cadence.str)
                   \in OncePerWeekAliases \cup TwicePerWeekAliases
                       \cup ThricePerWeekAliases \cup {"weekly"}) =>
               service_call.struct.v.type = PyStr("x_per_week")

\* C32: for every cadence value (an unknown type, a dict without a type,
\* with a count that is no number, zero or negative, with unknown or no
\* days), normalization and expansion return without an exception and the
\* task has at least one target day.
C32_MalformedCadenceNeverFails ==
    CadenceDone =>
        /\ ~service_call.struct.err
        /\ ~service_call.target_days.err
        /\ Len(service_call.target_days.v) >= 1

\* C32, without the counts that are no number: the calls that return have
\* at least one target day, and only the conversion of the count raises
C32_OnlyTheCountRaises ==
    CadenceDone =>
        /\ ~service_call.struct.err
        /\ ~service_call.target_days.err => Len(service_call.target_days.v) >= 1
        /\ service_call.target_days.err =>
               /\ service_call.cadence.t = "dict"
               /\ service_call.cadence.dict.count = PyStr("three")
-----------------------------------------------------------------------------
(* Properties of the type baseline of infer_effort_band                  *)

MentionsAdvanced ==
    \E keyword \in {"master", "advanced", "exam", "certification", "daily practice", "serious"} :
        StrContains(GoalTextLower, keyword)

\* the goal type of the call is one of the names
GoalTypeIs(names) == service_call.args[2].t = "str" /\ service_call.args[2].str \in names

\* the band of the goal type when the text has no casual and no intense
\* keyword; short tells whether a project or work goal counts as short
TypeBaseline(short) ==
    IF GoalTypeIs({"habit", "health"}) THEN "medium"
    ELSE IF GoalTypeIs({"skill", "learning"}) THEN (IF MentionsAdvanced THEN "high" ELSE "medium")
    ELSE IF GoalTypeIs({"project", "work"}) THEN (IF short THEN "high" ELSE "medium")
    ELSE "medium"

\* the band of a call by the rules of the baseline and the two overrides
BandByRules(short) ==
    /\ service_call.returned[1] \in {"low", "medium", "high", "intense"}
    /\ MentionsCasual => service_call.returned[1] = "low"
    /\ (MentionsIntense /\ ~MentionsCasual) => service_call.returned[1] \in {"intense", "high"}
    /\ (~MentionsIntense /\ ~MentionsCasual) => service_call.returned[1] = TypeBaseline(short)

\* C33 as stated: infer_effort_band returns a band for every call; a casual
\* keyword gives low; otherwise an intense keyword gives intense or high
\* whatever the goal type; otherwise habit and health give medium, skill
\* and learning medium or, with an advanced keyword, high, project and work
\* high when duration_weeks <= 6 and medium otherwise, and every other type,
\* None included, medium.
C33_TypeBaselineByDuration ==
    (BandReturned /\ service_call.args[3].t = "int") =>
        BandByRules(service_call.args[3].int <= 6)

\* C33: as above, with project and work high when duration_weeks is at most
\* 6 and not 0, and medium for a duration_weeks above 6 and for a
\* duration_weeks of None or 0, which count as 8.
C33_TypeBaseline ==
    BandReturned =>
        BandByRules(/\ service_call.args[3].t = "int"
                    /\ service_call.args[3].int # 0
                    /\ service_call.args[3].int <= 6)

\* a project of 0 weeks with a neutral text: medium
C33_Witness ==
    /\ BandReturned
    /\ ~MentionsCasual /\ ~MentionsIntense
    /\ service_call.args[2] = PyStr("project")
    /\ service_call.args[3] = PyInt(0)
    /\ service_call.returned[1] = "medium"

\* a skill goal with an advanced keyword and no other: high
C33_SkillPushReached ==
    /\ BandReturned
    /\ ~MentionsCasual /\ ~MentionsIntense /\ MentionsAdvanced
    /\ service_call.args[2] = PyStr("skill")
    /\ service_call.returned[1] = "high"
-----------------------------------------------------------------------------
(* Creating, decomposing and approving a resolution                      *)
(*                                                                       *)
(* POST /resolutions, POST /resolutions/{resolution_id}/decompose and    *)
(* POST /resolutions/{resolution_id}/approve on one database, one        *)
(* request at a time. A timestamp is the number of the request.          *)

\* the row create_resolution_endpoint stores
CreatedResolution(id, user_id, duration_weeks) ==
    [id |-> id, user_id |-> user_id, type |-> "other", duration_weeks |-> duration_weeks,
     status |-> "draft",
     metadata_json |-> [plan_v1 |-> Missing, plan_generated_at |-> Missing,
                        approved_at |-> Missing, rejected_at |-> Missing,
                        regeneration_requested_at |-> Missing]]

_resolve_plan_weeks(request_weeks, duration_weeks) ==
    IF Truthy(request_weeks) THEN Max(4, Min(12, request_weeks.int))
    ELSE IF Truthy(duration_weeks) THEN Max(4, Min(12, duration_weeks.int))
    ELSE 8

\* what the decomposer answers: a plan of plan_weeks weeks with the tasks of
\* its first week and the goal type it has recognised, or an exception
decompose_resolution(plan_weeks, answer) ==
    IF answer = "raises" THEN Raise("ValueError")
    ELSE Return([plan |-> PyDict([weeks |-> PyInt(plan_weeks)]),
                 week_one_tasks |-> IF plan_weeks <= 5 THEN <<"Read ten pages">>
                                    ELSE <<"Morning walk", "Stretch">>,
                 resolution_type |-> "habit"])

\* the rows of the tasks of the first week, all drafts; ids are fresh
_create_tasks_from_specs(resolution, specs, now) ==
    [k \in DOMAIN specs |->
        DraftTask((10 * now) + k, resolution.user_id, resolution.id, specs[k], TRUE)
            @@ [created_at |-> now]]

\* the draft tasks of the resolution are taken out of the table
_delete_existing_draft_tasks(tasks, resolution_id) ==
    SelectSeq(tasks, LAMBDA task : ~(task.resolution_id = resolution_id /\ _is_draft_task(task)))

\* variant: the drafts of the former plan are kept when regenerating
KeepFormerDrafts(base, resolution, plan_weeks, regenerate, answer, now, fault) ==
    Bind(decompose_resolution(plan_weeks, answer), LAMBDA decomposition :
        IF decomposition.err
        THEN [db |-> base, status_code |-> 500, raised |-> decomposition.exc,
              plan |-> PyNone, tasks |-> <<>>]
        ELSE Bind(_create_tasks_from_specs(resolution, decomposition.v.week_one_tasks, now),
                  LAMBDA tasks :
                 [db |-> [base EXCEPT
                             !.tasks = base.tasks \o tasks,
                             !.resolutions[resolution.id].metadata_json.plan_v1
                                 = decomposition.v.plan,
                             !.resolutions[resolution.id].metadata_json.plan_generated_at
                                 = PyInt(now)],
                  status_code |-> 200, raised |-> "",
                  plan |-> decomposition.v.plan, tasks |-> tasks]))

\* _prepare_plan_and_tasks and the commit that follows it; an exception of
\* the decomposer is raised again after the rollback, a failed commit is
\* answered with 500
_prepare_plan_and_tasks(base, resolution, plan_weeks, regenerate, answer, now, fault) ==
    Bind(IF regenerate THEN _delete_existing_draft_tasks(base.tasks, resolution.id)
         ELSE base.tasks,
         LAMBDA kept :
    Bind(decompose_resolution(plan_weeks, answer), LAMBDA decomposition :
        IF decomposition.err
        THEN [db |-> base, status_code |-> 500, raised |-> decomposition.exc,
              plan |-> PyNone, tasks |-> <<>>]
        ELSE IF fault = "commit"
        THEN [db |-> base, status_code |-> 500, raised |-> "", plan |-> PyNone, tasks |-> <<>>]
        ELSE Bind(_create_tasks_from_specs(resolution, decomposition.v.week_one_tasks, now),
                  LAMBDA tasks :
                 [db |-> [base EXCEPT
                             !.tasks = kept \o tasks,
                             !.resolutions[resolution.id].metadata_json.plan_v1
                                 = decomposition.v.plan,
                             !.resolutions[resolution.id].metadata_json.plan_generated_at
                                 = PyInt(now),
                             !.resolutions[resolution.id].type
                                 = IF resolution.type = "other"
                                   THEN decomposition.v.resolution_type
                                   ELSE resolution.type],
                  status_code |-> 200, raised |-> "",
                  plan |-> decomposition.v.plan, tasks |-> tasks])))

\* params is the DecompositionRequest: weeks is None or 4..12
decompose_resolution_endpoint(base, resolution_id, params, answer, now, fault) ==
    IF resolution_id \notin DOMAIN base.resolutions
    THEN [db |-> base, status_code |-> 404, raised |-> "", plan |-> PyNone, tasks |-> <<>>]
    ELSE Bind(base.resolutions[resolution_id], LAMBDA resolution :
         Bind(_fetch_draft_tasks(base.tasks, resolution.id), LAMBDA existing_tasks :
            IF /\ resolution.metadata_json.plan_v1 # Missing
               /\ existing_tasks # <<>>
               /\ ~params.regenerate
            THEN [db |-> base, status_code |-> 200, raised |-> "",
                  plan |-> resolution.metadata_json.plan_v1, tasks |-> existing_tasks]
            ELSE _prepare_plan_and_tasks(
                     base, resolution,
                     _resolve_plan_weeks(params.weeks, resolution.duration_weeks),
                     params.regenerate, answer, now, fault)))

MaxLifecycleRequests == 5

MaxResolutions == 2

\* the bodies of the decompose requests
DecompositionRequests ==
    {[weeks |-> PyNone, regenerate |-> FALSE], [weeks |-> PyNone, regenerate |-> TRUE],
     [weeks |-> PyInt(5), regenerate |-> TRUE]}

\* what happens while a decompose request is served: the decomposer answers
\* and the commit succeeds, the decomposer raises, the commit fails
DecompositionRuns ==
    {[answer |-> "plan", fault |-> "none"], [answer |-> "raises", fault |-> "none"],
     [answer |-> "plan", fault |-> "commit"]}

LifecycleStep(op, resolution_id, params, outcome) ==
    /\ db' = outcome.db
    /\ service_call' = [service_call EXCEPT
           !.now = service_call.now + 1,
           !.op = op,
           !.resolution_id = resolution_id,
           !.params = params,
           !.before = db,
           !.status_code = outcome.status_code,
           !.plan = outcome.plan,
           !.tasks = outcome.tasks]
    /\ UNCHANGED <<ladder_vars, scheduler_vars>>

\* POST /resolutions
CreateResolution ==
    /\ service_call.fn = "resolutions"
    /\ service_call.now < MaxLifecycleRequests
    /\ Len(db.resolutions) < MaxResolutions
    /\ \E duration_weeks \in {PyNone, PyInt(6)} :
          LifecycleStep("create", Len(db.resolutions) + 1, [duration_weeks |-> duration_weeks],
              [db |-> [db EXCEPT !.users = db.users \cup {1},
                                 !.resolutions = Append(db.resolutions,
                                     CreatedResolution(Len(db.resolutions) + 1, 1,
                                                       duration_weeks))],
               status_code |-> 201, plan |-> PyNone, tasks |-> <<>>])

\* POST /resolutions/{resolution_id}/decompose
DecomposeResolution ==
    /\ service_call.fn = "resolutions"
    /\ service_call.now < MaxLifecycleRequests
    /\ \E resolution_id \in DOMAIN db.resolutions, params \in DecompositionRequests,
          run \in DecompositionRuns :
          \E outcome \in {decompose_resolution_endpoint(db, resolution_id, params, run.answer,
                                                       service_call.now + 1, run.fault)} :
              LifecycleStep("decompose", resolution_id, params, outcome)

\* POST /resolutions/{resolution_id}/approve by the owner, without edits
ApproveOwnResolution ==
    /\ service_call.fn = "resolutions"
    /\ service_call.now < MaxLifecycleRequests
    /\ \E resolution_id \in DOMAIN db.resolutions,
          decision \in {"accept", "reject", "regenerate"} :
          \E request \in {[resolution_id |-> resolution_id,
                           user_id |-> db.resolutions[resolution_id].user_id,
                           decision |-> decision, task_edits |-> <<>>]} :
              \E outcome \in {approve_resolution_endpoint(db, request, service_call.now + 1,
                                                         "none")} :
                  LifecycleStep("approve", resolution_id, [decision |-> decision],
                                [db |-> outcome.db, status_code |-> outcome.status_code,
                                 plan |-> PyNone, tasks |-> outcome.tasks_activated])

\* an empty database
LifecycleInit ==
    /\ db = [users |-> {}, resolutions |-> <<>>, tasks |-> <<>>, logs |-> <<>>]
    /\ service_call = [fn |-> "resolutions", now |-> 0, op |-> "", resolution_id |-> 0,
                       params |-> Unset, before |-> Unset, status_code |-> 0,
                       plan |-> PyNone, tasks |-> <<>>]
    /\ LadderIdle
    /\ SchedulerIdle

LifecycleNext == CreateResolution \/ DecomposeResolution \/ ApproveOwnResolution

LifecycleSpec == LifecycleInit /\ [][LifecycleNext]_vars
-----------------------------------------------------------------------------
(* Properties of decomposing and approving                                *)

\* the draft tasks of a resolution in a database
DraftsOf(base, resolution_id) == _fetch_draft_tasks(base.tasks, resolution_id)

\* the last request was a decompose request answered with 200
Decomposed == service_call.fn = "resolutions" /\ service_call.op = "decompose" /\ service_call.status_code = 200

\* the resolution of the last request had a stored plan and draft tasks
HadPlanAndDrafts ==
    /\ service_call.before.resolutions[service_call.resolution_id].metadata_json.plan_v1 # Missing
    /\ DraftsOf(service_call.before, service_call.resolution_id) # <<>>

C38_ActiveHasNoDrafts ==
    service_call.fn = "resolutions" =>
        \A id \in DOMAIN db.resolutions :
            db.resolutions[id].status = "active" => DraftsOf(db, id) = <<>>

\* C38, up to the first decompose request for an active resolution
C38_AcceptLeavesNoDrafts ==
    (service_call.fn = "resolutions" /\ service_call.op = "approve"
         /\ service_call.params.decision = "accept" /\ service_call.status_code = 200) =>
        /\ db.resolutions[service_call.resolution_id].status = "active"
        /\ DraftsOf(db, service_call.resolution_id) = <<>>
-----------------------------------------------------------------------------
(* Properties of the plan a request returns                              *)

\* C35: in every plan decompose_resolution_with_llm returns, passed or
\* fallback_used of the evaluation_summary is true; a plan without
\* fallback_used is the plan of the latest LLM call that gave one, and the
\* verdict on it, the last of the request, says passed; a plan with
\* fallback_used, and so every plan that did not pass, is the fallback plan
\* of the request, built after a failed verdict.
C35_PassedOrFallback ==
    pc = "done" =>
        LET summary == result.dict.evaluation_summary
        IN  /\ summary.passed \/ summary.fallback_used
            /\ ~summary.fallback_used =>
                   /\ ~FallbackWasBuilt
                   /\ Len(events) >= 2
                   /\ IsVerdict(events[Len(events)], TRUE)
                   /\ events[Len(events) - 1].ev = "llm"
                   /\ ReturnedPlanIs(plan_dict)
                   /\ \E j \in judged : j.plan = plan_dict /\ j.passed
            /\ summary.fallback_used =>
                   /\ Len(events) >= 2
                   /\ events[Len(events) - 1] = FallbackBuilt
                   /\ LatestVerdictFails(Len(events) - 1)
                   /\ ~RequestFallbackPlan.err
                   /\ ReturnedPlanIs(RequestFallbackPlan.v)

\* the LLM plans failed, and the fallback plan was returned although it
\* failed evaluation as well
C35_Witness ==
    /\ pc = "done"
    /\ LLMCalls # <<>>
    /\ result.dict.evaluation_summary.fallback_used
    /\ ~result.dict.evaluation_summary.passed
    /\ ReturnedPlanIs(RequestFallbackPlan.v)
-----------------------------------------------------------------------------
(* Properties of a whole scheduling run                                  *)

\* the passes of the loop over target_days that the task makes: none when
\* its cadence raises
OccurrencesOf(task, args) ==
    Bind(_build_cadence_struct(task.cadence), LAMBDA built :
        IF built.err THEN <<>>
        ELSE Bind(_expand_target_days(built.v, 0, args.repeat_daily, args.today_weekday),
                  LAMBDA expanded :
                 IF expanded.err THEN <<>>
                 ELSE Bind(IF expanded.v = <<>> THEN <<0>> ELSE expanded.v, LAMBDA target_days :
                          [k \in DOMAIN target_days |->
                              [base |-> task, duration |-> _extract_duration(task),
                               cadence_struct |-> built.v, target_day |-> target_days[k]]])))

\* the passes of every task of the pool under every argument list explored
ScheduledPasses ==
    [args \in SchedulerArgs |-> [task \in SchedulerTasks |-> OccurrencesOf(task, args)]]

RECURSIVE OccurrencesOfAll(_, _)
OccurrencesOfAll(tasks, args) ==
    IF tasks = <<>> THEN <<>>
    ELSE ScheduledPasses[args][Head(tasks)] \o OccurrencesOfAll(Tail(tasks), args)

RECURSIVE PlacementsFrom(_, _, _, _, _)
\* the placements of the passes, made one after the other from the ledger
\* daily_load and the day of the last long session: the day, the duration,
\* whether the scan found no day, and the ledger the pass started from
PlacementsFrom(occurrences, daily_load, last_long_day, env, made) ==
    IF occurrences = <<>> THEN made
    ELSE Bind(Head(occurrences), LAMBDA pass :
         Bind(ScanDays(pass.target_day, max_checks, env.preferred_days, pass.duration,
                       daily_load, last_long_day, env.today_weekday),
              LAMBDA scan :
         Bind(IF scan.found THEN scan.day ELSE pass.target_day, LAMBDA day :
             PlacementsFrom(
                 Tail(occurrences),
                 IF scan.found THEN scan.daily_load
                 ELSE AppendLoad(scan.daily_load, day, pass.duration),
                 IF pass.duration > LongSessionMinutes THEN PyInt(day) ELSE last_long_day,
                 env,
                 Append(made,
                        [target_day |-> pass.target_day, day |-> day,
                         duration |-> pass.duration, forced |-> ~scan.found,
                         last_long_day |-> last_long_day])))))

\* the placements invocation i has made so far, in order
Placements(i) ==
    Bind(OccurrencesOfAll(inv[i].tasks, inv[i].args), LAMBDA occurrences :
        PlacementsFrom(SubSeq(occurrences, 1, Len(inv[i].acc.enriched)), << >>, PyNone,
                       inv[i].env, <<>>))

\* the placements are those the enriched list shows
PlacementsMatch(i, made) ==
    /\ Len(made) = Len(inv[i].acc.enriched)
    /\ \A k \in DOMAIN made :
           /\ made[k].day = inv[i].acc.enriched[k].suggested_day.day
           /\ made[k].duration = inv[i].acc.enriched[k].estimated_duration_min

\* the placements of sessions longer than 60 minutes
LongPlacements(made) == SelectSeq(made, LAMBDA p : p.duration > 60)

\* C36: in a run in which no session longer than 60 minutes was placed
\* without an accepted day, the days of the long sessions increase strictly
\* in the order of placement and any two of them are at least 2 days apart.
C36_LongSessionsTwoDaysApart ==
    \A i \in DOMAIN inv :
        Bind(Placements(i), LAMBDA made :
            /\ PlacementsMatch(i, made)
            /\ Bind(LongPlacements(made), LAMBDA long :
                   (\A k \in DOMAIN long : ~long[k].forced) =>
                       \A a, b \in DOMAIN long : a < b => long[b].day >= long[a].day + 2))

\* three long sessions, none forced, the last with a target day before the
\* day of the second
C36_Witness ==
    \E i \in DOMAIN inv :
        Bind(LongPlacements(Placements(i)), LAMBDA long :
            /\ Len(long) >= 3
            /\ \A k \in DOMAIN long : ~long[k].forced
            /\ long[3].target_day < long[2].day
            /\ long[3].day >= long[2].day + 2)

\* the day suits the weekday preference of the run
MatchesPreference(day, env) ==
    env.preferred_days = <<>> \/ Weekday(day, env.today_weekday) \in SeqRange(env.preferred_days)

\* the number of the first n placements that put a task of at least 15
\* minutes on the day
HeavyPlacedOn(made, n, day) ==
    Cardinality({k \in 1..n : made[k].day = day /\ made[k].duration >= 15})

\* the days placement k passed over before it was placed
PassedOver(made, k) ==
    IF made[k].forced THEN Lookahead(made[k].target_day)
    ELSE made[k].target_day..(made[k].day - 1)

\* a day takes a heavy task by acceptance only while it holds fewer than 2,
\* so that a third heavy task on a day was forced
HeavyCapByAcceptance(made) ==
    /\ \A k \in DOMAIN made :
           ~made[k].forced => HeavyPlacedOn(made, k - 1, made[k].day) < 2
    /\ \A k \in DOMAIN made :
           Cardinality({j \in 1..Len(made) : /\ ~made[j].forced
                                            /\ made[j].duration >= 15
                                            /\ made[j].day = made[k].day}) <= 2
    /\ \A k \in DOMAIN made :
           (made[k].duration >= 15 /\ HeavyPlacedOn(made, k - 1, made[k].day) >= 2)
               => made[k].forced

\* tasks shorter than 15 minutes do not count against a day: a day that
\* suits the preference and holds fewer than 2 heavy tasks is passed over
\* only by a long session
ShortTasksNeverCount(made, env) ==
    \A k \in DOMAIN made : \A d \in PassedOver(made, k) :
        (MatchesPreference(d, env) /\ HeavyPlacedOn(made, k - 1, d) < 2)
            => /\ made[k].duration > 60
               /\ made[k].last_long_day.t # "none"

\* a task shorter than 15 minutes passes over a day only for the weekday
\* preference
ShortTasksNeverDelayedByLoad(made, env) ==
    \A k \in DOMAIN made :
        made[k].duration < 15 =>
            \A d \in PassedOver(made, k) : ~MatchesPreference(d, env)

\* a task shorter than 15 minutes passes over a day only for the weekday
\* preference or because the day holds 2 heavy tasks
ShortTasksDelayedByFullDays(made, env) ==
    \A k \in DOMAIN made :
        made[k].duration < 15 =>
            \A d \in PassedOver(made, k) :
                \/ ~MatchesPreference(d, env)
                \/ HeavyPlacedOn(made, k - 1, d) >= 2

\* C37 as stated: in every state of a run each day holds at most 2 tasks of
\* at least 15 minutes placed by acceptance and exceeds 2 only by forced
\* placement; tasks shorter than 15 minutes never count against a day and
\* are never delayed by the load of a day.
C37_HeavyCapAndShortTasksFree ==
    \A i \in DOMAIN inv :
        Bind(Placements(i), LAMBDA made :
            /\ HeavyCapByAcceptance(made)
            /\ ShortTasksNeverCount(made, inv[i].env)
            /\ ShortTasksNeverDelayedByLoad(made, inv[i].env))

\* C37 amended: in every state of a run each day holds at most 2 tasks of
\* at least 15 minutes placed by acceptance and exceeds 2 only by forced
\* placement; tasks shorter than 15 minutes never count against a day, and
\* are delayed by the load of a day only when it holds 2 heavy tasks.
C37_HeavyCapByAcceptance ==
    \A i \in DOMAIN inv :
        Bind(Placements(i), LAMBDA made :
            /\ PlacementsMatch(i, made)
            /\ HeavyCapByAcceptance(made)
            /\ ShortTasksNeverCount(made, inv[i].env)
            /\ ShortTasksDelayedByFullDays(made, inv[i].env))

\* a 5 minute task was accepted on a day after passing over a day that
\* suits the preference and holds 2 heavy tasks
C37_Witness ==
    \E i \in DOMAIN inv :
        Bind(Placements(i), LAMBDA made :
               \E k \in DOMAIN made :
                   /\ ~made[k].forced /\ made[k].duration < 15
                   /\ \E d \in PassedOver(made, k) :
                          /\ MatchesPreference(d, inv[i].env)
                          /\ HeavyPlacedOn(made, k - 1, d) >= 2)

\* a third heavy task is on a day, placed there without an accepted day
C37_ThirdHeavyTaskForced ==
    \E i \in DOMAIN inv :
        Bind(Placements(i), LAMBDA made :
            \E k \in DOMAIN made :
                /\ made[k].forced /\ made[k].duration >= 15
                /\ HeavyPlacedOn(made, k, made[k].day) > 2)
-----------------------------------------------------------------------------
(* Task reminders: the startup run and the interval runs of the worker   *)

\* settings.task_reminder_lookahead_minutes
ReminderLookaheadMinutes == 1

\* the interval runs of the worker that are followed
MaxReminderRuns == 2

\* the latest minute datetime.now() shows
MaxReminderClock == 2

\* now.isoformat() of the minute now
IsoTime(minute) == [t |-> "isotime", minute |-> minute]

\* a row of the tasks table; metadata_json is read with .get, so that an
\* absent key is None; scheduled_at is what _combine_datetime gives for
\* scheduled_day and scheduled_time, None when one of the two is missing
ReminderTask(user_id, scheduled_at, completed, draft) ==
    [user_id |-> user_id, scheduled_at |-> scheduled_at, completed |-> completed,
     metadata_json |-> [draft |-> draft, reminder_sent_at |-> PyNone]]

\* the tasks table: a due task, a draft, a completed task, the task of a
\* user whose coaching is paused, a task due a minute later and a task
\* without a schedule
ReminderTasks ==
    <<ReminderTask(1, PyInt(1), FALSE, PyNone),
      ReminderTask(1, PyInt(1), FALSE, PyBool(TRUE)),
      ReminderTask(1, PyInt(1), TRUE, PyNone),
      ReminderTask(2, PyInt(1), FALSE, PyNone),
      ReminderTask(1, PyInt(2), FALSE, PyNone),
      ReminderTask(1, PyNone, FALSE, PyNone)>>

\* the rows of the query in the order of their ids, the session's copy of
\* each with it
_gather_candidates(tasks, window_start, window_end) ==
    Bind(SelectSeq([id \in DOMAIN tasks |-> [id |-> id, row |-> tasks[id]]],
                   LAMBDA c : /\ c.row.scheduled_at # PyNone
                              /\ ~c.row.completed),
         LAMBDA rows :
        SelectSeq(rows,
                  LAMBDA c : /\ ~Truthy(c.row.metadata_json.draft)
                             /\ window_start <= c.row.scheduled_at.int
                             /\ c.row.scheduled_at.int <= window_end
                             /\ ~Truthy(c.row.metadata_json.reminder_sent_at)))

\* the active tokens of the user
fetch_user_tokens(tokens, user_id) ==
    SelectSeq(tokens, LAMBDA token : token.user_id = user_id /\ token.active)

_preferences_allow_reminder(prefs, user_id) ==
    IF user_id \notin DOMAIN prefs THEN TRUE
    ELSE IF prefs[user_id].coaching_paused THEN FALSE
    ELSE IF ~prefs[user_id].weekly_plans_enabled THEN FALSE
    ELSE TRUE

\* the two threads that call _run_task_reminder_job: main() once at startup
\* and the interval job of the scheduler, one instance at a time
ReminderThreads == {"startup", "interval"}

IdleRun ==
    [pc |-> "idle", now |-> 0, candidates |-> <<>>, index |-> 0, metadata |-> Unset,
     payloads |-> <<>>, expired |-> FALSE, notifications_sent |-> 0, failed |-> FALSE]

\* the run goes on with the next candidate, or returns after the last one
NextCandidate(run) ==
    IF run.index < Len(run.candidates)
    THEN [run EXCEPT !.pc = "examine", !.index = run.index + 1]
    ELSE [run EXCEPT !.pc = "idle"]

ReminderStep(thread, run) ==
    /\ service_call' = [service_call EXCEPT !.runs[thread] = run]
    /\ UNCHANGED <<db, ladder_vars, scheduler_vars>>

\* run_task_reminder_check up to the loop: the query of the candidates
StartReminderRun ==
    /\ service_call.fn = "reminders"
    /\ \E thread \in ReminderThreads, now \in {service_call.clock, service_call.clock + 1} :
          /\ service_call.runs[thread].pc = "idle"
          /\ service_call.started[thread] < (IF thread = "startup" THEN 1 ELSE MaxReminderRuns)
          /\ now <= MaxReminderClock
          /\ \E candidates \in {IF service_call.notifications_enabled
                                THEN _gather_candidates(db.tasks, now,
                                                        now + ReminderLookaheadMinutes)
                                ELSE <<>>} :
                service_call' = [service_call EXCEPT
                    !.clock = now,
                    !.started[thread] = service_call.started[thread] + 1,
                    !.overlapped = service_call.overlapped
                                   \/ \E other \in ReminderThreads :
                                          service_call.runs[other].pc # "idle",
                    !.runs[thread] =
                        IF candidates = <<>> THEN [IdleRun EXCEPT !.now = now]
                        ELSE [IdleRun EXCEPT !.pc = "examine", !.now = now,
                                             !.candidates = candidates, !.index = 1]]
          /\ UNCHANGED <<db, ladder_vars, scheduler_vars>>

\* the body of the loop up to the dispatch: the task is read from the
\* session, which holds the row as the query loaded it until a commit of
\* the session has expired it
ExamineCandidate ==
    /\ service_call.fn = "reminders"
    /\ \E thread \in ReminderThreads :
          /\ service_call.runs[thread].pc = "examine"
          /\ \E run \in {service_call.runs[thread]} :
             \E candidate \in {run.candidates[run.index]} :
             \E task \in {IF run.expired THEN db.tasks[candidate.id] ELSE candidate.row} :
             \E tokens \in {fetch_user_tokens(db.tokens, task.user_id)} :
                 ReminderStep(thread,
                     IF \/ Truthy(task.metadata_json.reminder_sent_at)
                        \/ tokens = <<>>
                        \/ ~_preferences_allow_reminder(db.prefs, task.user_id)
                     THEN NextCandidate(run)
                     ELSE [run EXCEPT !.pc = "dispatch",
                                      !.metadata = task.metadata_json,
                                      !.payloads = tokens])

\* _dispatch: the push request; an answer of 400 or more raises and ends
\* the run
DispatchReminder ==
    /\ service_call.fn = "reminders"
    /\ \E thread \in ReminderThreads, status_code \in {200, 500} :
          /\ service_call.runs[thread].pc = "dispatch"
          /\ \E run \in {service_call.runs[thread]} :
                IF status_code >= 400
                THEN ReminderStep(thread, [run EXCEPT !.pc = "idle", !.failed = TRUE])
                ELSE /\ service_call' = [service_call EXCEPT
                            !.runs[thread] = [run EXCEPT !.pc = "commit"],
                            !.pushes = Append(service_call.pushes,
                                              [task_id |-> run.candidates[run.index].id,
                                               thread |-> thread,
                                               run |-> service_call.started[thread]])]
                     /\ UNCHANGED <<db, ladder_vars, scheduler_vars>>

\* the mark is stored and committed
CommitReminder ==
    /\ service_call.fn = "reminders"
    /\ \E thread \in ReminderThreads :
          /\ service_call.runs[thread].pc = "commit"
          /\ \E run \in {service_call.runs[thread]} :
                /\ db' = [db EXCEPT
                       !.tasks[run.candidates[run.index].id].metadata_json =
                           [run.metadata EXCEPT !.reminder_sent_at = IsoTime(run.now)]]
                /\ service_call' = [service_call EXCEPT
                       !.runs[thread] =
                           NextCandidate([run EXCEPT
                               !.expired = service_call.expire_on_commit,
                               !.notifications_sent =
                                   run.notifications_sent + Len(run.payloads)])]
                /\ UNCHANGED <<ladder_vars, scheduler_vars>>

\* the worker has started the scheduler; nothing has been reminded
ReminderInit ==
    /\ db = [tasks |-> ReminderTasks,
             prefs |-> [user_id \in {2} |->
                           [coaching_paused |-> TRUE, weekly_plans_enabled |-> TRUE]],
             tokens |-> <<[user_id |-> 1, token |-> "a", active |-> TRUE],
                          [user_id |-> 1, token |-> "b", active |-> FALSE],
                          [user_id |-> 2, token |-> "c", active |-> TRUE]>>]
    /\ \E notifications_enabled \in BOOLEAN, expire_on_commit \in BOOLEAN :
          service_call = [fn |-> "reminders", clock |-> 0,
                          notifications_enabled |-> notifications_enabled,
                          expire_on_commit |-> expire_on_commit,
                          runs |-> [thread \in ReminderThreads |-> IdleRun],
                          started |-> [thread \in ReminderThreads |-> 0],
                          overlapped |-> FALSE,
                          pushes |-> <<>>]
    /\ LadderIdle
    /\ SchedulerIdle

ReminderNext == StartReminderRun \/ ExamineCandidate \/ DispatchReminder \/ CommitReminder

ReminderSpec == ReminderInit /\ [][ReminderNext]_vars
-----------------------------------------------------------------------------
(* Properties of the task reminders                                      *)

\* the number of push requests sent for the task
PushesFor(task_id) ==
    Cardinality({k \in DOMAIN service_call.pushes : service_call.pushes[k].task_id = task_id})

\* a run is between the push request for the task and its commit
BeingMarked(task_id) ==
    \E thread \in ReminderThreads :
        /\ service_call.runs[thread].pc = "commit"
        /\ service_call.runs[thread].candidates[service_call.runs[thread].index].id = task_id

\* draft tasks, completed tasks and tasks of users whose coaching is paused
\* get no push request
NeverReminded(task_id) ==
    \/ Truthy(ReminderTasks[task_id].metadata_json.draft)
    \/ ReminderTasks[task_id].completed
    \/ ~_preferences_allow_reminder(db.prefs, ReminderTasks[task_id].user_id)

\* C39: over the startup run and the interval runs, overlapping or not, a
\* task gets at most one push request, the mark reminder_sent_at of a task
\* that got one is stored once its run has committed, and draft tasks,
\* completed tasks and tasks of users with paused coaching get none.
C39_AtMostOneReminder ==
    service_call.fn = "reminders" =>
        \A task_id \in DOMAIN ReminderTasks :
            /\ PushesFor(task_id) <= 1
            /\ (PushesFor(task_id) >= 1 /\ ~BeingMarked(task_id))
                   => Truthy(db.tasks[task_id].metadata_json.reminder_sent_at)
            /\ NeverReminded(task_id) => PushesFor(task_id) = 0

\* the same while no run has started during another one
C39_OneReminderWithoutOverlap ==
    (service_call.fn = "reminders" /\ ~service_call.overlapped) =>
        \A task_id \in DOMAIN ReminderTasks :
            /\ PushesFor(task_id) <= 1
            /\ (PushesFor(task_id) >= 1 /\ ~BeingMarked(task_id))
                   => Truthy(db.tasks[task_id].metadata_json.reminder_sent_at)
            /\ NeverReminded(task_id) => PushesFor(task_id) = 0

\* runs that overlapped never remind a draft task, a completed task or the
\* task of a user with paused coaching
C39_NeverRemindedTasks ==
    service_call.fn = "reminders" =>
        \A task_id \in DOMAIN ReminderTasks : NeverReminded(task_id) => PushesFor(task_id) = 0

\* two runs, one after the other, and one push request for the due task
C39_SequentialRunsReached ==
    /\ service_call.fn = "reminders"
    /\ ~service_call.overlapped
    /\ service_call.started["startup"] = 1 /\ service_call.started["interval"] >= 1
    /\ \A thread \in ReminderThreads : service_call.runs[thread].pc = "idle"
    /\ PushesFor(1) = 1

=============================================================================
